---- MODULE Spec2Model ----
(***************************************************************************)
(* State-machine model of the data-parallel coursework programs:           *)
(*   - tasks-02/task-01       threaded Armstrong-number search (pthreads)  *)
(*   - tasks-03/task-3-4-5    parallel prime search (OpenMP, dynamic)      *)
(*   - tasks-04/task-3-4-5-7-8 swap_min_max, matrix_transpose,             *)
(*                             matrix_multiply (OpenMP)                    *)
(* Every program is an independent process; each has its own block of      *)
(* variables and its own specification.  A program that is not running     *)
(* keeps its variables at the "off" values.                                *)
(***************************************************************************)
EXTENDS Integers, Sequences, FiniteSets, TLC

(* ------------------------------ bounds --------------------------------- *)
\* largest search limit given to the Armstrong search
MaxLimit == 11
\* largest worker count given to the Armstrong search (the program allows 16)
MaxArmThreads == 3
\* largest limit given to the prime search (the program passes 1000)
MaxPrimeLimit == 11
\* largest thread count given to the prime search
MaxPrimeThreads == 2
\* largest array given to swap_min_max
MaxSize == 3
\* array values are drawn from 1 .. MaxVal
MaxVal == 2
\* largest thread count given to swap_min_max
MaxSwapThreads == 2
\* largest search limit explored under fair scheduling
MaxFairLimit == 4
\* largest number of input files given to the text converter
MaxFiles == 2
\* largest thread count given to the text converter
MaxConverterThreads == 2
\* largest size of an array given to the merge
MaxMergeSize == 3
\* largest value in an array given to the merge
MaxMergeVal == 6
\* largest number of arguments on the pyramid printer's command line
MaxArgs == 3
\* largest number of lines in a small matrix file
MaxFileLines == 2
\* largest number of tokens on a line of a small matrix file
MaxLineTokens == 2
\* largest limit given to the digit-sum search
MaxSumLimit == 10
\* largest thread count given to the digit-sum search
MaxSumThreads == 2
\* largest digit sum searched for
MaxSumTarget == 2
\* largest tree depth asked for
MaxTreeDepth == 3
\* largest number of branches of a tree
MaxBranches == 2
\* largest thread count given to the tree builders
MaxTreeThreads == 4
\* longest list built
MaxListLength == 3
\* longest text given to the ciphers
MaxTextLen == 2
\* largest Caesar shift
MaxShift == 27
\* longest line given to text_to_morse
MaxLineLen == 683
\* largest month number tried
MaxMonth == 13
\* largest day number tried
MaxDay == 32
\* largest number of options on the command line of the number operations
MaxOptions == 2
\* most rows of the single pyramid
MaxPyramidRows == 4
\* largest thread count of the single pyramid
MaxPyramidThreads == 3
\* largest matrix dimension explored (the program allows MAX_DIM)
MaxDim == 2
\* largest thread count given to the matrix operations
MaxMatThreads == 2

(* ------------------------- program constants --------------------------- *)
ALGO_BASIC == 1
ALGO_OPTIMIZED == 2
ALGO_MATH == 3
\* capacity of a worker's private buffer, long long local_results[1000]
LOCAL_RESULTS == 1000
\* pthread_mutex_t that nobody holds
FREE == -1
\* the limit main passes to print_primes_up_to
PRIMES_UP_TO == 1000
\* the process has not ended: main has not returned and exit was not called
RUNNING == -1

Range(f) == {f[x] : x \in DOMAIN f}

(***************************************************************************)
(* tasks-02/task-01: the Armstrong predicates                              *)
(***************************************************************************)
RECURSIVE count_digits(_)
\* (int)floor(log10(llabs(num))) + 1, exact on the ranges explored
count_digits(num) ==
    IF num = 0 THEN 1
    ELSE IF num < 10 THEN 1
    ELSE 1 + count_digits(num \div 10)

RECURSIVE ipow_loop(_, _, _)
ipow_loop(result, base, exp) ==
    IF exp > 0
    THEN ipow_loop(IF exp % 2 = 1 THEN result * base ELSE result,
                   base * base, exp \div 2)
    ELSE result

\* square-and-multiply integer power
ipow(base, exp) == ipow_loop(1, base, exp)

RECURSIVE pow(_, _)
\* libm pow on small non-negative integers, truncated by the (long long) cast
pow(base, exp) == IF exp = 0 THEN 1 ELSE base * pow(base, exp - 1)

\* digit_powers[i] = ipow(i, digits) for i in 0..9
digit_powers(digits) == [d \in 0..9 |-> ipow(d, digits)]

\* the term added for one digit by each of the three algorithms
DigitTerm(algo, digit, digits) ==
    IF algo = ALGO_BASIC THEN pow(digit, digits)
    ELSE IF algo = ALGO_OPTIMIZED THEN ipow(digit, digits)
    ELSE digit_powers(digits)[digit]

RECURSIVE digit_sum_loop(_, _, _, _, _)
\* while (num > 0) { sum += term; if (sum > original) break; num /= 10; }
digit_sum_loop(algo, num, sum, original, digits) ==
    IF num > 0
    THEN LET s == sum + DigitTerm(algo, num % 10, digits)
         IN  IF s > original THEN s
             ELSE digit_sum_loop(algo, num \div 10, s, original, digits)
    ELSE sum

is_armstrong_number_basic(num) ==
    IF num < 10 THEN TRUE
    ELSE digit_sum_loop(ALGO_BASIC, num, 0, num, count_digits(num)) = num

is_armstrong_number_optimized(num) ==
    IF num < 10 THEN TRUE
    ELSE digit_sum_loop(ALGO_OPTIMIZED, num, 0, num, count_digits(num)) = num

is_armstrong_number_math(num) ==
    IF num < 10 THEN TRUE
    ELSE digit_sum_loop(ALGO_MATH, num, 0, num, count_digits(num)) = num

\* the switch on the algorithm; is_armstrong stays false for an unknown one
is_armstrong(algo, num) ==
    IF algo = ALGO_BASIC THEN is_armstrong_number_basic(num)
    ELSE IF algo = ALGO_OPTIMIZED THEN is_armstrong_number_optimized(num)
    ELSE IF algo = ALGO_MATH THEN is_armstrong_number_math(num)
    ELSE FALSE

RECURSIVE print_armstrong_loop(_, _, _, _)
print_armstrong_loop(i, lim, algo, out) ==
    IF i <= lim
    THEN print_armstrong_loop(i + 1, lim, algo,
                              IF is_armstrong(algo, i) THEN Append(out, i) ELSE out)
    ELSE out

\* the sequential search: the numbers it prints, in the order printed
print_armstrong_numbers(lim, algo) == print_armstrong_loop(1, lim, algo, << >>)

(* the controller's bubble sort of results[0 .. n); each pass is computed   *)
(* once, as the one element of a set, before the next pass uses it          *)
RECURSIVE bubble_inner(_, _, _)
bubble_inner(arr, j, bound) ==
    IF j < bound
    THEN CHOOSE out \in
             {bubble_inner(next, j + 1, bound) :
                 next \in {IF arr[j] > arr[j + 1]
                           THEN [arr EXCEPT ![j] = arr[j + 1], ![j + 1] = arr[j]]
                           ELSE arr}} : TRUE
    ELSE arr

\* an inner loop that stops one comparison early
bubble_bound_short(n, i) == n - i - 2

\* upper bound of the inner loop, j < result_count - i - 1
bubble_bound(n, i) == n - i - 1

RECURSIVE bubble_outer(_, _, _)
bubble_outer(arr, i, n) ==
    IF i < n - 1
    THEN CHOOSE out \in
             {bubble_outer(next, i + 1, n) :
                 next \in {bubble_inner(arr, 0, bubble_bound(n, i))}} : TRUE
    ELSE arr

bubble_sort(arr, n) == bubble_outer(arr, 0, n)

VARIABLES
    \* ---- tasks-02/task-01 -------------------------------------------------
    limit,          \* long long limit
    algorithm,      \* int algorithm
    thread_count,   \* int thread_count
    thread_data,    \* ThreadData thread_data[]: [start, end] of each worker
    arm_pc,         \* the controller's position
    arm_i,          \* the controller's loop index (create loop, join loop)
    t_pc,           \* each worker's position
    t_i,            \* each worker's loop variable i
    t_local,        \* each worker's local_results[0 .. local_count)
    t_j,            \* each worker's copy index j
    mutex,          \* pthread_mutex_t: its holder, or FREE
    results,        \* long long *results
    result_count,   \* int result_count
    presort,        \* results as they were when the last join returned
    output          \* the numbers printed, in order

armVars == << limit, algorithm, thread_count, thread_data, arm_pc, arm_i,
              t_pc, t_i, t_local, t_j, mutex, results, result_count,
              presort, output >>

VARIABLES
    \* ---- tasks-03/task-3-4-5 ----------------------------------------------
    pr_limit,       \* long long limit
    pr_threads,     \* int threads
    pr_next,        \* the next iteration schedule(dynamic) hands out
    pr_pc,          \* each thread's position
    pr_i,           \* each thread's loop variable i
    pr_k,           \* the value of count each thread read for primes[count++]
    pr_crit,        \* the thread inside #pragma omp critical, or FREE
    primes,         \* long long *primes
    count,          \* int count
    pr_main,        \* the position of print_primes_up_to
    pr_output       \* the numbers printed, in order

prVars == << pr_limit, pr_threads, pr_next, pr_pc, pr_i, pr_k, pr_crit, primes,
             count, pr_main, pr_output >>

VARIABLES
    \* ---- tasks-04/task-3-4-5-7-8: swap_min_max ----------------------------
    array,          \* double *array
    sw_input,       \* the array as it was passed in
    size,           \* int size
    sw_threads,     \* int threads
    sw_owner,       \* the thread that #pragma omp for gives iteration i to
    min_idx, max_idx, min_val, max_val,   \* the shared accumulators
    local_min, local_max, local_min_idx, local_max_idx,  \* per thread
    sw_pc,          \* each thread's position
    sw_crit,        \* the thread inside #pragma omp critical, or FREE
    sw_main         \* the position of swap_min_max

swVars == << array, sw_input, size, sw_threads, sw_owner, min_idx, max_idx,
             min_val, max_val, local_min, local_max, local_min_idx,
             local_max_idx, sw_pc, sw_crit, sw_main >>

VARIABLES
    \* ---- tasks-04/task-3-4-5-7-8: matrix_transpose, matrix_multiply -------
    mx_op,          \* config.operation
    mat_a,          \* Matrix mat (transpose) or a (multiply)
    mat_b,          \* Matrix b (multiply)
    mat_result,     \* Matrix result: rows, cols and the cells written so far
    mx_threads,     \* int threads
    mx_owner,       \* the thread that #pragma omp parallel for gives row i to
    mx_pc,          \* each thread's position
    mx_i, mx_j,     \* each thread's loop variables
    mx_writes,      \* for each index of result->data, the iterations that wrote it
    mx_main,        \* the position of the operation
    mx_first,       \* the matrix given to the first of two transpositions
    mx_file         \* whether the output file was written

mxVars == << mx_op, mat_a, mat_b, mat_result, mx_threads, mx_owner, mx_pc,
             mx_i, mx_j, mx_writes, mx_main, mx_first, mx_file >>

VARIABLES
    \* ---- tasks-02/task-06: process_files -----------------------------------
    tc_files,       \* for each file i, whether its input and its output can be opened
    tc_threads,     \* config->threads
    tc_owner,       \* the thread that #pragma omp parallel for gives file i to
    tc_state,       \* for each file i, how far its iteration got
    tc_log,         \* the lines printed on stdout, in order: what was printed, for which file
    tc_main         \* the position of main

tcVars == << tc_files, tc_threads, tc_owner, tc_state, tc_log, tc_main >>

VARIABLES
    \* ---- tasks-04: main, case OP_MERGE_ARRAYS ------------------------------
    mg_a,           \* the array read from the first file, cells 0 .. a_size - 1
    mg_b,           \* the array read from the second file, cells 0 .. b_size - 1
    mg_merged,      \* the cells of merged that were written, 0 .. k - 1
    mg_main         \* the position of main

mgVars == << mg_a, mg_b, mg_merged, mg_main >>

VARIABLES
    \* ---- tasks-02/task-03: main and parse_args of the pyramid printer ------
    py_argv,        \* argv[1 .. argc - 1], each argument a sequence of characters
    py_i,           \* the loop variable i of parse_args
    py_config,      \* the PyramidConfig
    py_out,         \* what main has printed on stdout
    py_main         \* the position of main

pyVars == << py_argv, py_i, py_config, py_out, py_main >>

VARIABLES
    \* ---- tasks-04: read_matrix_from_file and the matrix cases of main ------
    rd_op,          \* config.operation: "transpose" or "multiply"
    rd_files,       \* the contents of the input files, each a sequence of characters
    rd_k,           \* which input file is being read
    rd_pos,         \* the file position: how many characters were read
    rd_line,        \* char line[1024], with what earlier lines left behind
    rd_rows,        \* rows of read_matrix_from_file
    rd_cols,        \* cols of read_matrix_from_file
    rd_index,       \* index of read_matrix_from_file
    rd_mat,         \* the Matrix being filled: rows, cols and the cells written
    rd_loaded,      \* the matrices loaded so far
    rd_result,      \* result.rows and result.cols set by main
    rd_main         \* the position of main

rdVars == << rd_op, rd_files, rd_k, rd_pos, rd_line, rd_rows, rd_cols, rd_index,
             rd_mat, rd_loaded, rd_result, rd_main >>

VARIABLES
    \* ---- tasks-02/task-13-15: print_numbers_with_sum -----------------------
    ds_limit,       \* config->limit
    ds_threads,     \* config->threads
    ds_target,      \* config->sum_target
    ds_owner,       \* the thread that #pragma omp parallel for gives iteration i to
    ds_pc,          \* for each thread, its position in the loop body
    ds_i,           \* for each thread, its loop variable i
    ds_k,           \* for each thread, the value it read for count
    ds_crit,        \* the thread inside #pragma omp critical, or FREE
    numbers,        \* the shared buffer
    ds_count,       \* count
    ds_output,      \* the numbers printed by print_numbers_in_rows
    ds_main         \* the position of main

dsVars == << ds_limit, ds_threads, ds_target, ds_owner, ds_pc, ds_i, ds_k, ds_crit,
             numbers, ds_count, ds_output, ds_main >>

VARIABLES
    \* ---- tasks-05: create_binary_tree, create_mbranch_tree, free_tree ------
    tr_kind,        \* "binary" or "mbranch"
    tr_depth,       \* the depth asked for
    tr_branches,    \* branches (2 for the binary tree)
    tr_threads,     \* threads given to the first call
    tr_state,       \* for each node: "none", "building", "built" or "freed"
    tr_call,        \* for each node, the threads argument of the call that builds it
    tr_children,    \* for each node, its children array: a node or NULL_NODE per slot
    tr_stores,      \* for each slot, how often a section or iteration has stored into it
    tr_frees,       \* for each node, how often free was called on it and on its array
    tr_stack,       \* the frames of free_tree: the node and the loop variable i
    tr_order,       \* the nodes in the order in which they were freed
    tr_stale,       \* TRUE once a freed node or a freed array was read
    tr_calc,        \* calculated_depth
    tr_main         \* the position of main

trVars == << tr_kind, tr_depth, tr_branches, tr_threads, tr_state, tr_call, tr_children,
             tr_stores, tr_frees, tr_stack, tr_order, tr_stale, tr_calc, tr_main >>

VARIABLES
    \* ---- tasks-05: the linked list ------------------------------------------
    ls_op,          \* "reverse" (OP_REVERSE_LIST) or "operations" (OP_LIST_OPERATIONS)
    ls_show,        \* config.show_original
    ls_length,      \* config.list_length
    ls_mem,         \* the heap: for each address the data and next of the node there
    ls_live,        \* the addresses malloc has handed out and free has not taken back
    ls_frees,       \* for each address, how often free was called on it
    ls_orig,        \* the addresses create_list got from malloc
    ls_head,        \* head in main
    ls_copy,        \* head_copy in main
    ls_cur,         \* current (current_old in copy_list)
    ls_prev,        \* prev in reverse_list
    ls_new,         \* current_new in copy_list
    ls_i,           \* i in create_list
    ls_line,        \* the line print_list is writing
    ls_out,         \* the lists printed so far
    ls_stale,       \* TRUE once a node was used that is not allocated
    ls_pc           \* the position of main

lsVars == << ls_op, ls_show, ls_length, ls_mem, ls_live, ls_frees, ls_orig, ls_head,
             ls_copy, ls_cur, ls_prev, ls_new, ls_i, ls_line, ls_out, ls_stale, ls_pc >>

VARIABLES
    \* ---- tasks-02/task-06: caesar_cipher -------------------------------------
    cs_text,        \* the text read, as character codes
    cs_str,         \* the buffer caesar_cipher works on
    cs_shift,       \* config.caesar_shift
    cs_i,           \* i in caesar_cipher
    cs_pc           \* "encode", "decode" or "done"

csVars == << cs_text, cs_str, cs_shift, cs_i, cs_pc >>

VARIABLES
    \* ---- tasks-02/task-06: text_to_morse, morse_to_text ----------------------
    mo_text,        \* the line read, as character codes
    mo_str,         \* the caller's buffer of MAX_INPUT_LEN bytes: the string in it
    mo_result,      \* result in text_to_morse and in morse_to_text
    mo_i,           \* i in text_to_morse; where strtok goes on in morse_to_text
    mo_overrun,     \* TRUE once strcpy has written past the end of the buffer
    mo_pc           \* "text_to_morse", "morse_to_text", "done" or "overrun"

moVars == << mo_text, mo_str, mo_result, mo_i, mo_overrun, mo_pc >>

VARIABLES
    \* ---- tasks-01/task-01: the date calculator ------------------------------
    dt_date,        \* flags->date: year, month, day
    dt_flags,       \* which of day_of_year, day_of_week, date_diff are set
    dt_valid,       \* what Date_is_valid returned
    dt_out,         \* what was printed on stdout
    dt_pc           \* the position in validate_and_process

dtVars == << dt_date, dt_flags, dt_valid, dt_out, dt_pc >>

VARIABLES
    \* ---- tasks-02/task-13-15: parse_args and the Config in memory -----------
    nc_args,        \* the options on the command line, each with the argument after it
    nc_i,           \* how many of them parse_args has handled
    nc_mem,         \* the 32-bit words of config and the word that follows it
    nc_order,       \* the byte order of the machine: "little" or "big"
    nc_pc           \* "parse_args", "parsed" or "exit"

ncVars == << nc_args, nc_i, nc_mem, nc_order, nc_pc >>

VARIABLES
    \* ---- tasks-02/task-11-12: print_pyramid, print_pyramid_parallel ---------
    sp_config,      \* rows, symbols, use_color, color, threads
    sp_rows,        \* rows[i]: the buffer of each row, as far as it is written
    sp_filled,      \* the iterations of the parallel loop that have run
    sp_overrun,     \* TRUE once a row was written past the end of its buffer
    sp_i,           \* i in the loop that prints
    sp_out,         \* the lines of the pyramid printed so far
    sp_pc           \* "main", "print_pyramid", "fill", "print" or "exit"

spVars == << sp_config, sp_rows, sp_filled, sp_overrun, sp_i, sp_out, sp_pc >>

VARIABLES
    \* ---- the running process ----------------------------------------------
    std_err,        \* the messages written to stderr, in order
    exit_status     \* the status the process ended with, RUNNING until then

osVars == << std_err, exit_status >>

vars == << armVars, prVars, swVars, mxVars, tcVars, mgVars, pyVars, rdVars, dsVars, trVars, lsVars, csVars, moVars, dtVars, ncVars, spVars, osVars >>

\* the variables of the programs that are not running
notArm == << prVars, swVars, mxVars, tcVars, mgVars, pyVars, rdVars, dsVars, trVars, lsVars, csVars, moVars, dtVars, ncVars, spVars >>
notPr == << armVars, swVars, mxVars, tcVars, mgVars, pyVars, rdVars, dsVars, trVars, lsVars, csVars, moVars, dtVars, ncVars, spVars >>
notSw == << armVars, prVars, mxVars, tcVars, mgVars, pyVars, rdVars, dsVars, trVars, lsVars, csVars, moVars, dtVars, ncVars, spVars >>
notMx == << armVars, prVars, swVars, tcVars, mgVars, pyVars, rdVars, dsVars, trVars, lsVars, csVars, moVars, dtVars, ncVars, spVars >>
notTc == << armVars, prVars, swVars, mxVars, mgVars, pyVars, rdVars, dsVars, trVars, lsVars, csVars, moVars, dtVars, ncVars, spVars >>
notMg == << armVars, prVars, swVars, mxVars, tcVars, pyVars, rdVars, dsVars, trVars, lsVars, csVars, moVars, dtVars, ncVars, spVars >>
notPy == << armVars, prVars, swVars, mxVars, tcVars, mgVars, rdVars, dsVars, trVars, lsVars, csVars, moVars, dtVars, ncVars, spVars >>
notRd == << armVars, prVars, swVars, mxVars, tcVars, mgVars, pyVars, dsVars, trVars, lsVars, csVars, moVars, dtVars, ncVars, spVars >>
notDs == << armVars, prVars, swVars, mxVars, tcVars, mgVars, pyVars, rdVars, trVars, lsVars, csVars, moVars, dtVars, ncVars, spVars >>
notTr == << armVars, prVars, swVars, mxVars, tcVars, mgVars, pyVars, rdVars, dsVars, lsVars, csVars, moVars, dtVars, ncVars, spVars >>
notLs == << armVars, prVars, swVars, mxVars, tcVars, mgVars, pyVars, rdVars, dsVars, trVars, csVars, moVars, dtVars, ncVars, spVars >>
notCs == << armVars, prVars, swVars, mxVars, tcVars, mgVars, pyVars, rdVars, dsVars, trVars, lsVars, moVars, dtVars, ncVars, spVars >>
notMo == << armVars, prVars, swVars, mxVars, tcVars, mgVars, pyVars, rdVars, dsVars, trVars, lsVars, csVars, dtVars, ncVars, spVars >>
notDt == << armVars, prVars, swVars, mxVars, tcVars, mgVars, pyVars, rdVars, dsVars, trVars, lsVars, csVars, moVars, ncVars, spVars >>
notNc == << armVars, prVars, swVars, mxVars, tcVars, mgVars, pyVars, rdVars, dsVars, trVars, lsVars, csVars, moVars, dtVars, spVars >>
notSp == << armVars, prVars, swVars, mxVars, tcVars, mgVars, pyVars, rdVars, dsVars, trVars, lsVars, csVars, moVars, dtVars, ncVars >>

\* the process has started: nothing on stderr, no exit status yet
OsInit == std_err = << >> /\ exit_status = RUNNING

ArmWorkers == 0 .. thread_count - 1

\* the program is not running
ArmOff ==
    /\ limit = 0 /\ algorithm = 0 /\ thread_count = 0
    /\ thread_data = << >> /\ arm_pc = "off" /\ arm_i = 0
    /\ t_pc = << >> /\ t_i = << >> /\ t_local = << >> /\ t_j = << >>
    /\ mutex = FREE /\ results = << >> /\ result_count = 0
    /\ presort = << >> /\ output = << >>

\* find_armstrong_numbers_threaded is called: the mutex is initialised and
\* the results are about to be allocated
ArmInit ==
    /\ limit \in 1 .. MaxLimit
    /\ algorithm \in {ALGO_BASIC, ALGO_OPTIMIZED, ALGO_MATH}
    /\ thread_count \in 2 .. MaxArmThreads
    /\ thread_data = [w \in ArmWorkers |-> [start |-> 0, end |-> 0]]
    /\ arm_pc = "alloc" /\ arm_i = 0
    /\ t_pc = [w \in ArmWorkers |-> "none"]
    /\ t_i = [w \in ArmWorkers |-> 0]
    /\ t_local = [w \in ArmWorkers |-> << >>]
    /\ t_j = [w \in ArmWorkers |-> 0]
    /\ mutex = FREE
    /\ results = << >>
    /\ result_count = 0
    /\ presort = << >>
    /\ output = << >>

\* results = malloc(limit * sizeof(long long)) returns the buffer (its cells
\* are unwritten, shown as 0); result_count = 0
ArmAlloc ==
    /\ arm_pc = "alloc"
    /\ results' = [k \in 0 .. limit - 1 |-> 0]
    /\ arm_pc' = "create"
    /\ UNCHANGED << limit, algorithm, thread_count, thread_data, arm_i, t_pc,
                    t_i, t_local, t_j, mutex, result_count, presort, output >>
    /\ UNCHANGED << notArm, osVars >>

\* where the controller goes on after the failed allocation was reported
\* when the exit(1) is missing
ArmAfterAllocFailureGoesOn == "create"

\* where the controller is after  print_error(...); exit(1);
ArmAfterAllocFailure == "exit"

\* malloc returns NULL: print_error("Memory allocation failed"); exit(1);
ArmAllocFail ==
    /\ arm_pc = "alloc"
    /\ std_err' = Append(std_err, "Memory allocation failed")
    /\ exit_status' = 1
    /\ arm_pc' = ArmAfterAllocFailure
    /\ UNCHANGED << limit, algorithm, thread_count, thread_data, arm_i, t_pc,
                    t_i, t_local, t_j, mutex, results, result_count, presort,
                    output >>
    /\ UNCHANGED notArm

\* long long chunk_size = limit / thread_count
chunk_size == limit \div thread_count

\* the start without the + 1
ThreadStartNoOffset(i) == i * chunk_size

\* thread_data[i].start = i * chunk_size + 1
ThreadStart(i) == i * chunk_size + 1

\* the end without the special case of the last worker
ThreadEndNoTail(i) == (i + 1) * chunk_size

\* thread_data[i].end = (i == thread_count - 1) ? limit : (i + 1) * chunk_size
ThreadEnd(i) == IF i = thread_count - 1 THEN limit ELSE (i + 1) * chunk_size

\* one pass of the create loop: fill thread_data[i], pthread_create
ArmCreate ==
    /\ arm_pc = "create"
    /\ arm_i < thread_count
    /\ thread_data' = [thread_data EXCEPT
                         ![arm_i] = [start |-> ThreadStart(arm_i),
                                     end |-> ThreadEnd(arm_i)]]
    /\ t_pc' = [t_pc EXCEPT ![arm_i] = "loop"]
    /\ t_i' = [t_i EXCEPT ![arm_i] = ThreadStart(arm_i)]
    /\ arm_i' = arm_i + 1
    /\ UNCHANGED << limit, algorithm, thread_count, arm_pc, t_local, t_j,
                    mutex, results, result_count, presort, output >>
    /\ UNCHANGED << notArm, osVars >>

\* the create loop ends, the join loop begins
ArmCreated ==
    /\ arm_pc = "create"
    /\ arm_i >= thread_count
    /\ arm_pc' = "join"
    /\ arm_i' = 0
    /\ UNCHANGED << limit, algorithm, thread_count, thread_data, t_pc, t_i,
                    t_local, t_j, mutex, results, result_count, presort, output >>
    /\ UNCHANGED << notArm, osVars >>

\* thread_function, one pass of the for loop over [start, end]: test i, keep
\* it in the private buffer, and go for the mutex when the buffer is full
ThreadCheck(w) ==
    /\ t_pc[w] = "loop"
    /\ t_i[w] <= thread_data[w].end
    /\ LET hit == is_armstrong(algorithm, t_i[w])
           buf == IF hit THEN Append(t_local[w], t_i[w]) ELSE t_local[w]
           full == hit /\ Len(buf) >= LOCAL_RESULTS
       IN  /\ t_local' = [t_local EXCEPT ![w] = buf]
           /\ t_pc' = [t_pc EXCEPT ![w] = IF full THEN "lock" ELSE "loop"]
           /\ t_i' = [t_i EXCEPT ![w] = IF full THEN @ ELSE @ + 1]
    /\ UNCHANGED << limit, algorithm, thread_count, thread_data, arm_pc, arm_i,
                    t_j, mutex, results, result_count, presort, output >>
    /\ UNCHANGED << notArm, osVars >>

\* the for loop ends: flush what is left, or return at once
ThreadLoopEnd(w) ==
    /\ t_pc[w] = "loop"
    /\ t_i[w] > thread_data[w].end
    /\ t_pc' = [t_pc EXCEPT ![w] = IF Len(t_local[w]) > 0 THEN "lock" ELSE "done"]
    /\ UNCHANGED << limit, algorithm, thread_count, thread_data, arm_pc, arm_i,
                    t_i, t_local, t_j, mutex, results, result_count, presort,
                    output >>
    /\ UNCHANGED << notArm, osVars >>

\* a lock that never blocks
MutexAlwaysAvailable(w) == TRUE

\* pthread_mutex_lock may return only when nobody holds the mutex
MutexAvailable(w) == mutex = FREE

\* pthread_mutex_lock(data->mutex)
ThreadLock(w) ==
    /\ t_pc[w] = "lock"
    /\ MutexAvailable(w)
    /\ mutex' = w
    /\ t_pc' = [t_pc EXCEPT ![w] = "copy"]
    /\ t_j' = [t_j EXCEPT ![w] = 0]
    /\ UNCHANGED << limit, algorithm, thread_count, thread_data, arm_pc, arm_i,
                    t_i, t_local, results, result_count, presort, output >>
    /\ UNCHANGED << notArm, osVars >>

\* data->results[(*data->result_count)++] = local_results[j]
ThreadCopy(w) ==
    /\ t_pc[w] = "copy"
    /\ t_j[w] < Len(t_local[w])
    /\ results' = [results EXCEPT ![result_count] = t_local[w][t_j[w] + 1]]
    /\ result_count' = result_count + 1
    /\ t_j' = [t_j EXCEPT ![w] = @ + 1]
    /\ UNCHANGED << limit, algorithm, thread_count, thread_data, arm_pc, arm_i,
                    t_pc, t_i, t_local, mutex, presort, output >>
    /\ UNCHANGED << notArm, osVars >>

\* an unlock that leaves the mutex with its holder
MutexKeptAfterUnlock(w) == w

\* the mutex after pthread_mutex_unlock(data->mutex) by its holder w
MutexAfterUnlock(w) == FREE

\* pthread_mutex_unlock; after a flush inside the loop local_count = 0 and the
\* loop goes on with i + 1, after the last flush the worker returns
ThreadUnlock(w) ==
    /\ t_pc[w] = "copy"
    /\ t_j[w] >= Len(t_local[w])
    /\ mutex' = MutexAfterUnlock(w)
    /\ IF t_i[w] <= thread_data[w].end
       THEN /\ t_local' = [t_local EXCEPT ![w] = << >>]
            /\ t_i' = [t_i EXCEPT ![w] = @ + 1]
            /\ t_pc' = [t_pc EXCEPT ![w] = "loop"]
       ELSE /\ t_pc' = [t_pc EXCEPT ![w] = "done"]
            /\ UNCHANGED << t_local, t_i >>
    /\ UNCHANGED << limit, algorithm, thread_count, thread_data, arm_pc, arm_i,
                    t_j, results, result_count, presort, output >>
    /\ UNCHANGED << notArm, osVars >>

\* a join that does not wait
JoinReturnsAtOnce(i) == TRUE

\* pthread_join(threads[i], NULL) returns when worker i has returned
JoinReturns(i) == t_pc[i] = "done"

\* one pass of the join loop
ArmJoin ==
    /\ arm_pc = "join"
    /\ arm_i < thread_count
    /\ JoinReturns(arm_i)
    /\ arm_i' = arm_i + 1
    /\ UNCHANGED << limit, algorithm, thread_count, thread_data, arm_pc, t_pc,
                    t_i, t_local, t_j, mutex, results, result_count, presort,
                    output >>
    /\ UNCHANGED << notArm, osVars >>

\* the join loop ends, the controller sorts results[0 .. result_count)
ArmSort ==
    /\ arm_pc = "join"
    /\ arm_i >= thread_count
    /\ presort' = results
    /\ results' = bubble_sort(results, result_count)
    /\ arm_pc' = "print"
    /\ UNCHANGED << limit, algorithm, thread_count, thread_data, arm_i, t_pc,
                    t_i, t_local, t_j, mutex, result_count, output >>
    /\ UNCHANGED << notArm, osVars >>

\* the print loop, then free and pthread_mutex_destroy; main prints the time
\* and returns 0
ArmPrint ==
    /\ arm_pc = "print"
    /\ output' = [k \in 1 .. result_count |-> results[k - 1]]
    /\ arm_pc' = "done"
    /\ exit_status' = 0
    /\ UNCHANGED << limit, algorithm, thread_count, thread_data, arm_i, t_pc,
                    t_i, t_local, t_j, mutex, results, result_count, presort >>
    /\ UNCHANGED << notArm, std_err >>

ArmNext ==
    \/ ArmAlloc
    \/ ArmAllocFail
    \/ ArmCreate
    \/ ArmCreated
    \/ \E w \in ArmWorkers : ThreadCheck(w)
    \/ \E w \in ArmWorkers : ThreadLoopEnd(w)
    \/ \E w \in ArmWorkers : ThreadLock(w)
    \/ \E w \in ArmWorkers : ThreadCopy(w)
    \/ \E w \in ArmWorkers : ThreadUnlock(w)
    \/ ArmJoin
    \/ ArmSort
    \/ ArmPrint

\* the steps of worker w; a thread that can run is scheduled in the end
ArmWorker(w) ==
    /\ w \in ArmWorkers
    /\ \/ ThreadCheck(w)
       \/ ThreadLoopEnd(w)
       \/ ThreadLock(w)
       \/ ThreadCopy(w)
       \/ ThreadUnlock(w)

\* the steps of the controlling thread
ArmController ==
    \/ ArmAlloc
    \/ ArmAllocFail
    \/ ArmCreate
    \/ ArmCreated
    \/ ArmJoin
    \/ ArmSort
    \/ ArmPrint

\* fair scheduling of the threads: none that can take a step waits for ever
ArmFairness ==
    /\ WF_vars(ArmController)
    /\ \A w \in 0 .. MaxArmThreads - 1 : WF_vars(ArmWorker(w))

(***************************************************************************)
(* tasks-03/task-3-4-5: print_primes_up_to                                 *)
(***************************************************************************)
RECURSIVE is_prime_loop(_, _)
\* for (i = 5; i * i <= num; i += 6) if (num % i == 0 || num % (i + 2) == 0) ...
is_prime_loop(num, i) ==
    IF i * i <= num
    THEN IF num % i = 0 \/ num % (i + 2) = 0 THEN FALSE
         ELSE is_prime_loop(num, i + 6)
    ELSE TRUE

is_prime(num) ==
    IF num <= 1 THEN FALSE
    ELSE IF num <= 3 THEN TRUE
    ELSE IF num % 2 = 0 \/ num % 3 = 0 THEN FALSE
    ELSE is_prime_loop(num, 5)

PrThreads == 0 .. pr_threads - 1

PrOff ==
    /\ pr_limit = 0 /\ pr_threads = 0 /\ pr_next = 0
    /\ pr_pc = << >> /\ pr_i = << >> /\ pr_k = << >> /\ pr_crit = FREE
    /\ primes = << >> /\ count = 0 /\ pr_main = "off" /\ pr_output = << >>

\* print_primes_up_to is called: primes is about to be allocated
PrInit ==
    /\ pr_limit \in 1 .. MaxPrimeLimit
    /\ pr_threads \in 1 .. MaxPrimeThreads
    /\ pr_next = 2
    /\ pr_pc = [w \in PrThreads |-> "wait"]
    /\ pr_i = [w \in PrThreads |-> 0]
    /\ pr_k = [w \in PrThreads |-> 0]
    /\ pr_crit = FREE
    /\ primes = << >>
    /\ count = 0
    /\ pr_main = "alloc"
    /\ pr_output = << >>

\* primes = malloc(limit * sizeof(long long)) returns the buffer (its cells are
\* unwritten, shown as 0); count = 0 and the threads enter the parallel loop,
\* whose first iteration is i = 2
PrAlloc ==
    /\ pr_main = "alloc"
    /\ primes' = [k \in 0 .. pr_limit - 1 |-> 0]
    /\ pr_pc' = [w \in PrThreads |-> "idle"]
    /\ pr_main' = "parallel"
    /\ UNCHANGED << pr_limit, pr_threads, pr_next, pr_i, pr_k, pr_crit,
                    count, pr_output >>
    /\ UNCHANGED << notPr, osVars >>

\* malloc returns NULL: print_error("Memory allocation failed"); exit(1);
PrAllocFail ==
    /\ pr_main = "alloc"
    /\ std_err' = Append(std_err, "Memory allocation failed")
    /\ exit_status' = 1
    /\ pr_main' = "exit"
    /\ UNCHANGED << pr_limit, pr_threads, pr_next, pr_pc, pr_i, pr_k, pr_crit,
                    primes, count, pr_output >>
    /\ UNCHANGED notPr

\* schedule(dynamic): a free thread takes the next iteration
PrimeClaim(w) ==
    /\ pr_pc[w] = "idle"
    /\ pr_next <= pr_limit
    /\ pr_i' = [pr_i EXCEPT ![w] = pr_next]
    /\ pr_next' = pr_next + 1
    /\ pr_pc' = [pr_pc EXCEPT ![w] = "test"]
    /\ UNCHANGED << pr_k, pr_limit, pr_threads, pr_crit, primes, count, pr_main,
                    pr_output >>
    /\ UNCHANGED << notPr, osVars >>

\* no iteration is left: the thread waits at the end of the loop
PrimeFinish(w) ==
    /\ pr_pc[w] = "idle"
    /\ pr_next > pr_limit
    /\ pr_pc' = [pr_pc EXCEPT ![w] = "done"]
    /\ UNCHANGED << pr_k, pr_limit, pr_threads, pr_next, pr_i, pr_crit, primes,
                    count, pr_main, pr_output >>
    /\ UNCHANGED << notPr, osVars >>

\* if (is_prime(i))
PrimeTest(w) ==
    /\ pr_pc[w] = "test"
    /\ pr_pc' = [pr_pc EXCEPT ![w] = IF is_prime(pr_i[w]) THEN "enter" ELSE "idle"]
    /\ UNCHANGED << pr_k, pr_limit, pr_threads, pr_next, pr_i, pr_crit, primes,
                    count, pr_main, pr_output >>
    /\ UNCHANGED << notPr, osVars >>

\* a critical section that never blocks
CriticalAlwaysAvailable(w) == TRUE

\* a thread may enter #pragma omp critical only when no thread is inside
CriticalAvailable(w) == pr_crit = FREE

\* entry to #pragma omp critical, and the read of count in primes[count++]
PrimeEnter(w) ==
    /\ pr_pc[w] = "enter"
    /\ CriticalAvailable(w)
    /\ pr_crit' = w
    /\ pr_k' = [pr_k EXCEPT ![w] = count]
    /\ pr_pc' = [pr_pc EXCEPT ![w] = "append"]
    /\ UNCHANGED << pr_limit, pr_threads, pr_next, pr_i, primes, count,
                    pr_main, pr_output >>
    /\ UNCHANGED << notPr, osVars >>

\* the stores of primes[count++] = i; and the end of the critical section
\* (the value read for count is dead afterwards and is cleared)
PrimeAppend(w) ==
    /\ pr_pc[w] = "append"
    /\ primes' = [primes EXCEPT ![pr_k[w]] = pr_i[w]]
    /\ count' = pr_k[w] + 1
    /\ pr_crit' = FREE
    /\ pr_pc' = [pr_pc EXCEPT ![w] = "idle"]
    /\ pr_k' = [pr_k EXCEPT ![w] = 0]
    /\ UNCHANGED << pr_limit, pr_threads, pr_next, pr_i, pr_main, pr_output >>
    /\ UNCHANGED << notPr, osVars >>

\* the barrier that ends the parallel loop, then print_numbers_in_rows, free;
\* main goes on and returns 0
PrimePrint ==
    /\ pr_main = "parallel"
    /\ \A w \in PrThreads : pr_pc[w] = "done"
    /\ pr_output' = [k \in 1 .. count |-> primes[k - 1]]
    /\ pr_main' = "done"
    /\ exit_status' = 0
    /\ UNCHANGED << pr_k, pr_limit, pr_threads, pr_next, pr_pc, pr_i, pr_crit,
                    primes, count >>
    /\ UNCHANGED << notPr, std_err >>

PrNext ==
    \/ PrAlloc
    \/ PrAllocFail
    \/ \E w \in PrThreads : PrimeClaim(w)
    \/ \E w \in PrThreads : PrimeFinish(w)
    \/ \E w \in PrThreads : PrimeTest(w)
    \/ \E w \in PrThreads : PrimeEnter(w)
    \/ \E w \in PrThreads : PrimeAppend(w)
    \/ PrimePrint

(***************************************************************************)
(* tasks-04/task-3-4-5-7-8: swap_min_max                                   *)
(***************************************************************************)
SwThreads == 0 .. sw_threads - 1

SwOff ==
    /\ array = << >> /\ sw_input = << >> /\ size = 0 /\ sw_threads = 0
    /\ sw_owner = << >>
    /\ min_idx = 0 /\ max_idx = 0 /\ min_val = 0 /\ max_val = 0
    /\ local_min = << >> /\ local_max = << >>
    /\ local_min_idx = << >> /\ local_max_idx = << >>
    /\ sw_pc = << >> /\ sw_crit = FREE /\ sw_main = "off"

\* An assignment of the iterations to the threads, up to the names of the
\* threads (which nothing in swap_min_max reads): iteration 1 goes to thread 0
\* and an iteration goes to a thread already used or to the next unused one.
OwnerCanonical(own) ==
    \A i \in DOMAIN own :
        \/ own[i] = 0
        \/ \E k \in DOMAIN own : k < i /\ own[k] >= own[i] - 1

\* the call swap_min_max(array, size, threads); the schedule of the
\* #pragma omp for is left to the implementation, so any assignment of the
\* iterations 1 .. size-1 to the threads is possible
SwInit ==
    /\ size \in 0 .. MaxSize
    /\ array \in [0 .. size - 1 -> 1 .. MaxVal]
    /\ sw_input = array
    /\ sw_threads \in 1 .. MaxSwapThreads
    /\ sw_owner \in [1 .. size - 1 -> SwThreads]
    /\ OwnerCanonical(sw_owner)
    /\ min_idx = 0 /\ max_idx = 0 /\ min_val = 0 /\ max_val = 0
    /\ local_min = [w \in SwThreads |-> 0]
    /\ local_max = [w \in SwThreads |-> 0]
    /\ local_min_idx = [w \in SwThreads |-> 0]
    /\ local_max_idx = [w \in SwThreads |-> 0]
    /\ sw_pc = [w \in SwThreads |-> "wait"]
    /\ sw_crit = FREE
    /\ sw_main = "call"

swLocals == << local_min, local_max, local_min_idx, local_max_idx >>
swShared == << min_idx, max_idx, min_val, max_val >>
swFixed == << sw_input, size, sw_threads, sw_owner >>

\* if (size < 1) return;
SwReturn ==
    /\ sw_main = "call"
    /\ size < 1
    /\ sw_main' = "done"
    /\ UNCHANGED << array, swFixed, swShared, swLocals, sw_pc, sw_crit >>
    /\ UNCHANGED << notSw, osVars >>

\* the accumulators are set from array[0] and the parallel region starts
SwFork ==
    /\ sw_main = "call"
    /\ size >= 1
    /\ min_idx' = 0 /\ max_idx' = 0
    /\ min_val' = array[0] /\ max_val' = array[0]
    /\ sw_pc' = [w \in SwThreads |-> "r_min"]
    /\ sw_main' = "parallel"
    /\ UNCHANGED << array, swFixed, swLocals, sw_crit >>
    /\ UNCHANGED << notSw, osVars >>

\* double local_min = min_val;  (a read of the shared accumulator)
SwReadMin(w) ==
    /\ sw_pc[w] = "r_min"
    /\ local_min' = [local_min EXCEPT ![w] = min_val]
    /\ sw_pc' = [sw_pc EXCEPT ![w] = "r_max"]
    /\ UNCHANGED << array, swFixed, swShared, local_max, local_min_idx,
                    local_max_idx, sw_crit, sw_main >>
    /\ UNCHANGED << notSw, osVars >>

\* double local_max = max_val;
SwReadMax(w) ==
    /\ sw_pc[w] = "r_max"
    /\ local_max' = [local_max EXCEPT ![w] = max_val]
    /\ sw_pc' = [sw_pc EXCEPT ![w] = "r_min_idx"]
    /\ UNCHANGED << array, swFixed, swShared, local_min, local_min_idx,
                    local_max_idx, sw_crit, sw_main >>
    /\ UNCHANGED << notSw, osVars >>

\* int local_min_idx = min_idx;
SwReadMinIdx(w) ==
    /\ sw_pc[w] = "r_min_idx"
    /\ local_min_idx' = [local_min_idx EXCEPT ![w] = min_idx]
    /\ sw_pc' = [sw_pc EXCEPT ![w] = "r_max_idx"]
    /\ UNCHANGED << array, swFixed, swShared, local_min, local_max,
                    local_max_idx, sw_crit, sw_main >>
    /\ UNCHANGED << notSw, osVars >>

\* int local_max_idx = max_idx;
SwReadMaxIdx(w) ==
    /\ sw_pc[w] = "r_max_idx"
    /\ local_max_idx' = [local_max_idx EXCEPT ![w] = max_idx]
    /\ sw_pc' = [sw_pc EXCEPT ![w] = "for"]
    /\ UNCHANGED << array, swFixed, swShared, local_min, local_max,
                    local_min_idx, sw_crit, sw_main >>
    /\ UNCHANGED << notSw, osVars >>

RECURSIVE sw_for(_, _, _)
\* the thread's share of  for (i = 1; i < size; i++) { if (array[i] < local_min)
\* ...; if (array[i] > local_max) ...; }  run in rising order of i; acc holds
\* the thread's local_min, local_min_idx, local_max, local_max_idx
sw_for(w, i, acc) ==
    IF i < size
    THEN IF sw_owner[i] = w
         THEN LET lower == array[i] < acc.min
                  higher == array[i] > acc.max
              IN  sw_for(w, i + 1,
                         [min |-> IF lower THEN array[i] ELSE acc.min,
                          min_idx |-> IF lower THEN i ELSE acc.min_idx,
                          max |-> IF higher THEN array[i] ELSE acc.max,
                          max_idx |-> IF higher THEN i ELSE acc.max_idx])
         ELSE sw_for(w, i + 1, acc)
    ELSE acc

\* #pragma omp for nowait: the thread runs its iterations, which touch only
\* its own locals and the unchanging array, and goes on without a barrier
SwLoop(w) ==
    /\ sw_pc[w] = "for"
    /\ LET acc == sw_for(w, 1, [min |-> local_min[w], min_idx |-> local_min_idx[w],
                                max |-> local_max[w], max_idx |-> local_max_idx[w]])
       IN  /\ local_min' = [local_min EXCEPT ![w] = acc.min]
           /\ local_min_idx' = [local_min_idx EXCEPT ![w] = acc.min_idx]
           /\ local_max' = [local_max EXCEPT ![w] = acc.max]
           /\ local_max_idx' = [local_max_idx EXCEPT ![w] = acc.max_idx]
    /\ sw_pc' = [sw_pc EXCEPT ![w] = "critical"]
    /\ UNCHANGED << array, swFixed, swShared, sw_crit, sw_main >>
    /\ UNCHANGED << notSw, osVars >>

\* the test that lets a thread's minimum replace the shared one
MinBetter(mine, shared) == mine < shared

\* a thread may enter #pragma omp critical only when no thread is inside
SwCriticalAvailable(w) == sw_crit = FREE

\* #pragma omp critical: entry, and  if (local_min < min_val) min_val = local_min;
SwEnter(w) ==
    /\ sw_pc[w] = "critical"
    /\ SwCriticalAvailable(w)
    /\ sw_crit' = w
    /\ IF MinBetter(local_min[w], min_val)
       THEN /\ min_val' = local_min[w]
            /\ sw_pc' = [sw_pc EXCEPT ![w] = "c_min_idx"]
       ELSE /\ min_val' = min_val
            /\ sw_pc' = [sw_pc EXCEPT ![w] = "c_max"]
    /\ UNCHANGED << array, swFixed, min_idx, max_idx, max_val, swLocals, sw_main >>
    /\ UNCHANGED << notSw, osVars >>

\* min_idx = local_min_idx;
SwCritMinIdx(w) ==
    /\ sw_pc[w] = "c_min_idx"
    /\ min_idx' = local_min_idx[w]
    /\ sw_pc' = [sw_pc EXCEPT ![w] = "c_max"]
    /\ UNCHANGED << array, swFixed, max_idx, min_val, max_val, swLocals,
                    sw_crit, sw_main >>
    /\ UNCHANGED << notSw, osVars >>

\* if (local_max > max_val) max_val = local_max;  otherwise the section ends
SwCritMax(w) ==
    /\ sw_pc[w] = "c_max"
    /\ IF local_max[w] > max_val
       THEN /\ max_val' = local_max[w]
            /\ sw_pc' = [sw_pc EXCEPT ![w] = "c_max_idx"]
            /\ sw_crit' = sw_crit
       ELSE /\ max_val' = max_val
            /\ sw_pc' = [sw_pc EXCEPT ![w] = "done"]
            /\ sw_crit' = FREE
    /\ UNCHANGED << array, swFixed, min_idx, max_idx, min_val, swLocals,
                    sw_main >>
    /\ UNCHANGED << notSw, osVars >>

\* max_idx = local_max_idx; and the section ends
SwCritMaxIdx(w) ==
    /\ sw_pc[w] = "c_max_idx"
    /\ max_idx' = local_max_idx[w]
    /\ sw_pc' = [sw_pc EXCEPT ![w] = "done"]
    /\ sw_crit' = FREE
    /\ UNCHANGED << array, swFixed, min_idx, min_val, max_val, swLocals,
                    sw_main >>
    /\ UNCHANGED << notSw, osVars >>

\* the exchange without the write of temp into the second cell
SwapCellsNoTemp(arr, i, j) == [arr EXCEPT ![i] = arr[j]]

\* temp = array[i]; array[i] = array[j]; array[j] = temp;
SwapCells(arr, i, j) == [arr EXCEPT ![i] = arr[j], ![j] = arr[i]]

\* the barrier that ends the parallel region, then the exchange
SwSwap ==
    /\ sw_main = "parallel"
    /\ \A w \in SwThreads : sw_pc[w] = "done"
    /\ array' = SwapCells(array, min_idx, max_idx)
    /\ sw_main' = "done"
    /\ UNCHANGED << swFixed, swShared, swLocals, sw_pc, sw_crit >>
    /\ UNCHANGED << notSw, osVars >>

SwNext ==
    \/ SwReturn
    \/ SwFork
    \/ \E w \in SwThreads : SwReadMin(w)
    \/ \E w \in SwThreads : SwReadMax(w)
    \/ \E w \in SwThreads : SwReadMinIdx(w)
    \/ \E w \in SwThreads : SwReadMaxIdx(w)
    \/ \E w \in SwThreads : SwLoop(w)
    \/ \E w \in SwThreads : SwEnter(w)
    \/ \E w \in SwThreads : SwCritMinIdx(w)
    \/ \E w \in SwThreads : SwCritMax(w)
    \/ \E w \in SwThreads : SwCritMaxIdx(w)
    \/ SwSwap

(***************************************************************************)
(* tasks-04/task-3-4-5-7-8: matrix_transpose and matrix_multiply           *)
(***************************************************************************)
(* A double is finite (val is its value), an infinity (val is its sign) or  *)
(* not a number; sscanf("%lf") gives an infinity for a number too large for *)
(* a double.  The finite values explored are small integers, which double   *)
(* arithmetic adds and multiplies exactly.                                   *)
Fin(n) == [cls |-> "finite", val |-> n]
PosInf == [cls |-> "inf", val |-> 1]
NaN == [cls |-> "nan", val |-> 0]

IsFinite(x) == x.cls = "finite"

Sign(v) == IF v < 0 THEN -1 ELSE IF v > 0 THEN 1 ELSE 0

\* x * y on doubles: 0 times an infinity is not a number
fmul(x, y) ==
    IF x.cls = "nan" \/ y.cls = "nan" THEN NaN
    ELSE IF x.cls = "inf" \/ y.cls = "inf"
         THEN IF x.val = 0 \/ y.val = 0 THEN NaN
              ELSE [cls |-> "inf", val |-> Sign(x.val) * Sign(y.val)]
         ELSE Fin(x.val * y.val)

\* x + y on doubles: infinities of opposite sign give not a number
fadd(x, y) ==
    IF x.cls = "nan" \/ y.cls = "nan" THEN NaN
    ELSE IF x.cls = "inf" /\ y.cls = "inf"
         THEN IF x.val = y.val THEN x ELSE NaN
         ELSE IF x.cls = "inf" THEN x
         ELSE IF y.cls = "inf" THEN y
         ELSE Fin(x.val + y.val)

\* x == y on doubles: not a number equals nothing
feq(x, y) == x.cls # "nan" /\ y.cls # "nan" /\ x = y

MatrixKinds == {"index", "identity", "signed", "overflow"}

\* a rows x cols Matrix, row-major in data[0 .. rows*cols); the kind
\* "overflow" has a first cell read from a number too large for a double
MakeMatrix(kind, r, c) ==
    [rows |-> r, cols |-> c,
     data |-> [x \in 0 .. r * c - 1 |->
                 LET i == x \div c
                     j == x % c
                 IN  IF kind = "index" THEN Fin(x + 1)
                     ELSE IF kind = "identity" THEN Fin(IF i = j THEN 1 ELSE 0)
                     ELSE IF kind = "signed" THEN Fin(i - 2 * j)
                     ELSE IF x = 0 THEN PosInf ELSE Fin(x + 1)]]

NoMatrix == [rows |-> 0, cols |-> 0, data |-> << >>]

MxThreads == 0 .. mx_threads - 1

MxOff ==
    /\ mx_op = "none" /\ mat_a = NoMatrix /\ mat_b = NoMatrix
    /\ mat_result = NoMatrix /\ mx_threads = 0 /\ mx_owner = << >>
    /\ mx_pc = << >> /\ mx_i = << >> /\ mx_j = << >> /\ mx_writes = {}
    /\ mx_main = "off" /\ mx_first = NoMatrix /\ mx_file = "none"

\* main after the input matrices were read; result is an uninitialised local
MxInit ==
    /\ mx_op \in {"transpose", "multiply"}
    /\ \E ka \in MatrixKinds, r \in 1 .. MaxDim, c \in 1 .. MaxDim :
          mat_a = MakeMatrix(ka, r, c)
    /\ IF mx_op = "multiply"
       THEN \E kb \in MatrixKinds, r \in 1 .. MaxDim, c \in 1 .. MaxDim :
               mat_b = MakeMatrix(kb, r, c)
       ELSE mat_b = NoMatrix
    /\ mat_result = NoMatrix
    /\ mx_threads \in 1 .. MaxMatThreads
    /\ mx_owner \in [0 .. mat_a.rows - 1 -> MxThreads]
    /\ mx_pc = [w \in MxThreads |-> "wait"]
    /\ mx_i = [w \in MxThreads |-> 0]
    /\ mx_j = [w \in MxThreads |-> 0]
    /\ mx_writes = {}
    /\ mx_main = "start"
    /\ mx_first = NoMatrix
    /\ mx_file = "none"

mxFixed == << mx_op, mat_a, mat_b, mx_threads, mx_owner >>

\* the first row after row `after` that the parallel for gives to thread w,
\* or rows when there is none
MxNextRow(w, after) ==
    LET mine == {i \in 0 .. mat_a.rows - 1 : mx_owner[i] = w /\ i > after}
    IN  IF mine = {} THEN mat_a.rows
        ELSE CHOOSE x \in mine : \A y \in mine : x <= y

\* the threads enter the parallel for, each at its first row
MxFork == [w \in MxThreads |-> MxNextRow(w, -1)]

\* result.rows = mat.cols; result.cols = mat.rows; matrix_transpose(...)
MxBeginTranspose ==
    /\ mx_main = "start"
    /\ mx_op = "transpose"
    /\ mat_result' = [rows |-> mat_a.cols, cols |-> mat_a.rows, data |-> << >>]
    /\ mx_pc' = [w \in MxThreads |-> "run"]
    /\ mx_i' = MxFork
    /\ mx_main' = "parallel"
    /\ UNCHANGED << mxFixed, mx_j, mx_writes >>
    /\ UNCHANGED << notMx, osVars, mx_first, mx_file >>

\* if (a.cols != b.rows) { print_error(...); exit(1); }
MxReject ==
    /\ mx_main = "start"
    /\ mx_op = "multiply"
    /\ mat_a.cols # mat_b.rows
    /\ std_err' = Append(std_err, "Matrix dimensions incompatible for multiplication")
    /\ exit_status' = 1
    /\ mx_main' = "error"
    /\ UNCHANGED << mxFixed, mat_result, mx_pc, mx_i, mx_j, mx_writes >>
    /\ UNCHANGED << notMx, mx_first, mx_file >>

\* a result that takes its column count from the left operand
MultiplyResultColsOfA == mat_a.cols

\* result.cols = b.cols;
MultiplyResultCols == mat_b.cols

\* result.rows = a.rows; result.cols = b.cols; matrix_multiply(...)
MxBeginMultiply ==
    /\ mx_main = "start"
    /\ mx_op = "multiply"
    /\ mat_a.cols = mat_b.rows
    /\ mat_result' = [rows |-> mat_a.rows, cols |-> MultiplyResultCols,
                      data |-> << >>]
    /\ mx_pc' = [w \in MxThreads |-> "run"]
    /\ mx_i' = MxFork
    /\ mx_main' = "parallel"
    /\ UNCHANGED << mxFixed, mx_j, mx_writes >>
    /\ UNCHANGED << notMx, osVars, mx_first, mx_file >>

\* result->data[idx] = v
MxStore(m, idx, v) ==
    [m EXCEPT !.data = [k \in DOMAIN m.data \cup {idx} |->
                          IF k = idx THEN v ELSE m.data[k]]]

\* an index without the row stride
TransposeIndexNoStride(i, j) == j + i

\* the index matrix_transpose writes for (i, j): j * result->cols + i
TransposeIndex(i, j) == j * mat_result.cols + i

\* an index that stays at the first cell of row i
TransposeSourceRowStart(i, j) == i * mat_a.cols

\* the index matrix_transpose reads for (i, j): i * mat->cols + j
TransposeSource(i, j) == i * mat_a.cols + j

\* the index matrix_multiply writes for (i, j): i * result->cols + j
MultiplyIndex(i, j) == i * mat_result.cols + j

\* a sum that keeps only the last term
AccumulateLastTerm(sum, term) == term

\* sum += term
Accumulate(sum, term) == fadd(sum, term)

RECURSIVE multiply_sum(_, _, _, _)
\* for (k = 0; k < a->cols; k++) sum += a[i*a->cols + k] * b[k*b->cols + j]
multiply_sum(i, j, k, sum) ==
    IF k < mat_a.cols
    THEN multiply_sum(i, j, k + 1,
                      Accumulate(sum, fmul(mat_a.data[i * mat_a.cols + k],
                                           mat_b.data[k * mat_b.cols + j])))
    ELSE sum

\* the loop variables after the body of (i, j) when the inner loop has n passes
MxAdvance(w, n) ==
    /\ mx_j' = [mx_j EXCEPT ![w] = IF @ + 1 < n THEN @ + 1 ELSE 0]
    /\ mx_i' = [mx_i EXCEPT ![w] = IF mx_j[w] + 1 < n THEN @ ELSE MxNextRow(w, @)]

\* matrix_transpose, the body of the loops for one (i, j)
TransposeCell(w) ==
    /\ mx_op = "transpose"
    /\ mx_pc[w] = "run"
    /\ mx_i[w] < mat_a.rows
    /\ LET i == mx_i[w]
           j == mx_j[w]
           idx == TransposeIndex(i, j)
       IN  /\ mat_result' = MxStore(mat_result, idx, mat_a.data[TransposeSource(i, j)])
           /\ mx_writes' = mx_writes \cup {[idx |-> idx, thread |-> w, i |-> i, j |-> j]}
    /\ MxAdvance(w, mat_a.cols)
    /\ UNCHANGED << mxFixed, mx_pc, mx_main >>
    /\ UNCHANGED << notMx, osVars, mx_first, mx_file >>

\* matrix_multiply, the body of the loops for one (i, j)
MultiplyCell(w) ==
    /\ mx_op = "multiply"
    /\ mx_pc[w] = "run"
    /\ mx_i[w] < mat_a.rows
    /\ LET i == mx_i[w]
           j == mx_j[w]
           idx == MultiplyIndex(i, j)
       IN  /\ mat_result' = MxStore(mat_result, idx, multiply_sum(i, j, 0, Fin(0)))
           /\ mx_writes' = mx_writes \cup {[idx |-> idx, thread |-> w, i |-> i, j |-> j]}
    /\ MxAdvance(w, mat_b.cols)
    /\ UNCHANGED << mxFixed, mx_pc, mx_main >>
    /\ UNCHANGED << notMx, osVars, mx_first, mx_file >>

\* a thread has no row left and waits at the end of the parallel for
MxRowsDone(w) ==
    /\ mx_pc[w] = "run"
    /\ mx_i[w] >= mat_a.rows
    /\ mx_pc' = [mx_pc EXCEPT ![w] = "done"]
    /\ UNCHANGED << mxFixed, mat_result, mx_i, mx_j, mx_writes, mx_main >>
    /\ UNCHANGED << notMx, osVars, mx_first, mx_file >>

\* the barrier that ends the parallel for; the operation returns
MxJoin ==
    /\ mx_main = "parallel"
    /\ \A w \in MxThreads : mx_pc[w] = "done"
    /\ mx_main' = "done"
    /\ UNCHANGED << mxFixed, mat_result, mx_pc, mx_i, mx_j, mx_writes >>
    /\ UNCHANGED << notMx, osVars, mx_first, mx_file >>

\* the transpose operation applied once more, to its own result: the result
\* becomes mat and the parallel for may hand out the rows differently
MxTransposeAgain ==
    /\ mx_main = "done"
    /\ mx_op = "transpose"
    /\ mx_first = NoMatrix
    /\ mx_first' = mat_a
    /\ mat_a' = mat_result
    /\ mat_result' = NoMatrix
    /\ mx_owner' \in [0 .. mat_result.rows - 1 -> MxThreads]
    /\ mx_pc' = [w \in MxThreads |-> "wait"]
    /\ mx_i' = [w \in MxThreads |-> 0]
    /\ mx_j' = [w \in MxThreads |-> 0]
    /\ mx_writes' = {}
    /\ mx_main' = "start"
    /\ UNCHANGED << mx_op, mat_b, mx_threads, mx_file >>
    /\ UNCHANGED << notMx, osVars >>

\* print_matrix of the operands and the result, then write_matrix_to_file
\* writes the result (write_output is set with -t and -m); main returns 0
MxWrite ==
    /\ mx_main = "done"
    /\ mx_file' = "written"
    /\ exit_status' = 0
    /\ mx_main' = "exit"
    /\ UNCHANGED << mxFixed, mat_result, mx_pc, mx_i, mx_j, mx_writes, mx_first >>
    /\ UNCHANGED << notMx, std_err >>

\* write_matrix_to_file cannot open the output file: handle_file_error
\* reports it and the function returns false, which main does not test;
\* main returns 0
MxWriteFail ==
    /\ mx_main = "done"
    /\ std_err' = Append(std_err, "Could not write file")
    /\ exit_status' = 0
    /\ mx_main' = "exit"
    /\ UNCHANGED << mxFixed, mat_result, mx_pc, mx_i, mx_j, mx_writes, mx_first,
                    mx_file >>
    /\ UNCHANGED << notMx >>

MxNext ==
    \/ MxBeginTranspose
    \/ MxReject
    \/ MxBeginMultiply
    \/ \E w \in MxThreads : TransposeCell(w)
    \/ \E w \in MxThreads : MultiplyCell(w)
    \/ \E w \in MxThreads : MxRowsDone(w)
    \/ MxJoin
    \/ MxTransposeAgain
    \/ MxWrite
    \/ MxWriteFail

(***************************************************************************)
(* tasks-02/task-06: main and process_files of the text converter          *)
(***************************************************************************)
TcFiles == 0 .. Len(tc_files) - 1

TcThreads == 0 .. tc_threads - 1

TcOff ==
    /\ tc_files = << >> /\ tc_threads = 0 /\ tc_owner = << >>
    /\ tc_state = << >> /\ tc_log = << >> /\ tc_main = "off"

\* main after parse_args with file_count > 0: for each input file the
\* environment decides whether fopen(input, "r") and fopen(output, "w") work
TcInit ==
    /\ tc_files \in UNION {[1 .. n -> [in_ok : BOOLEAN, out_ok : BOOLEAN]] :
                              n \in 1 .. MaxFiles}
    /\ tc_threads \in 1 .. MaxConverterThreads
    /\ tc_owner \in [0 .. Len(tc_files) - 1 -> TcThreads]
    /\ (\A i \in DOMAIN tc_owner : i >= 1 => tc_owner[i] >= tc_owner[i - 1])
    /\ tc_state = [i \in 0 .. Len(tc_files) - 1 |-> "todo"]
    /\ tc_log = << >>
    /\ tc_main = "process_files"

\* the iteration of file i may run: its thread has finished its earlier files
TcTurn(i) ==
    /\ tc_main = "process_files"
    /\ i \in TcFiles
    /\ tc_state[i] = "todo"
    /\ \A k \in TcFiles : (k < i /\ tc_owner[k] = tc_owner[i]) => tc_state[k] # "todo"

\* fopen(config->input_files[i], "r") fails:
\* printf("Error opening input file: ...") and continue
TcInputFails(i) ==
    /\ TcTurn(i)
    /\ ~ tc_files[i + 1].in_ok
    /\ tc_state' = [tc_state EXCEPT ![i] = "input_error"]
    /\ tc_log' = Append(tc_log, [line |-> "Error opening input file", file |-> i])
    /\ UNCHANGED << tc_files, tc_threads, tc_owner, tc_main >>
    /\ UNCHANGED << notTc, osVars >>

\* fopen(output_filename, "w") fails:
\* printf("Error opening output file: ..."), fclose(input_file) and continue
TcOutputFails(i) ==
    /\ TcTurn(i)
    /\ tc_files[i + 1].in_ok
    /\ ~ tc_files[i + 1].out_ok
    /\ tc_state' = [tc_state EXCEPT ![i] = "output_error"]
    /\ tc_log' = Append(tc_log, [line |-> "Error opening output file", file |-> i])
    /\ UNCHANGED << tc_files, tc_threads, tc_owner, tc_main >>
    /\ UNCHANGED << notTc, osVars >>

\* both files open: every line is converted and written, the files are
\* closed and printf("Processed file: ...")
TcProcessed(i) ==
    /\ TcTurn(i)
    /\ tc_files[i + 1].in_ok
    /\ tc_files[i + 1].out_ok
    /\ tc_state' = [tc_state EXCEPT ![i] = "processed"]
    /\ tc_log' = Append(tc_log, [line |-> "Processed file", file |-> i])
    /\ UNCHANGED << tc_files, tc_threads, tc_owner, tc_main >>
    /\ UNCHANGED << notTc, osVars >>

\* the barrier that ends the parallel for; process_files returns, main prints
\* "Processing completed" and returns 0
TcReturn ==
    /\ tc_main = "process_files"
    /\ \A i \in TcFiles : tc_state[i] # "todo"
    /\ tc_log' = Append(tc_log, [line |-> "Processing completed", file |-> -1])
    /\ exit_status' = 0
    /\ tc_main' = "exit"
    /\ UNCHANGED << tc_files, tc_threads, tc_owner, tc_state >>
    /\ UNCHANGED << notTc, std_err >>

TcNext ==
    \/ \E i \in TcFiles : TcInputFails(i)
    \/ \E i \in TcFiles : TcOutputFails(i)
    \/ \E i \in TcFiles : TcProcessed(i)
    \/ TcReturn

(***************************************************************************)
(* tasks-04: merge_sorted_arrays and the case OP_MERGE_ARRAYS of main      *)
(***************************************************************************)
ArraySize(arr) == Cardinality(DOMAIN arr)

\* the arrays of at most MaxMergeSize cells in non-decreasing order
SortedArrays ==
    UNION {{arr \in [0 .. n - 1 -> 1 .. MaxMergeVal] :
               \A x \in 0 .. n - 2 : arr[x] <= arr[x + 1]} : n \in 0 .. MaxMergeSize}

\* result[k++] = value
StoreNext(result, value) ==
    [x \in 0 .. ArraySize(result) |-> IF x = ArraySize(result) THEN value ELSE result[x]]

\* the test of the first loop that takes the next cell from a
TakeFromAAlways(x, y) == TRUE
TakeFromA(x, y) == x < y

RECURSIVE merge_loop(_, _, _, _, _)
merge_loop(a, b, i, j, result) ==
    IF i < ArraySize(a) /\ j < ArraySize(b)
    THEN IF TakeFromA(a[i], b[j])
         THEN merge_loop(a, b, i + 1, j, StoreNext(result, a[i]))
         ELSE merge_loop(a, b, i, j + 1, StoreNext(result, b[j]))
    ELSE IF i < ArraySize(a)
         THEN merge_loop(a, b, i + 1, j, StoreNext(result, a[i]))
         ELSE IF j < ArraySize(b)
              THEN merge_loop(a, b, i, j + 1, StoreNext(result, b[j]))
              ELSE result

merge_sorted_arrays(a, b) == merge_loop(a, b, 0, 0, << >>)

MgOff == mg_a = << >> /\ mg_b = << >> /\ mg_merged = << >> /\ mg_main = "off"

\* main after both read_array_from_file calls returned true
MgInit ==
    /\ mg_a \in SortedArrays
    /\ mg_b \in SortedArrays
    /\ mg_merged = << >>
    /\ mg_main = "alloc"

\* malloc((a_size + b_size) * sizeof(double)) succeeds and
\* merge_sorted_arrays(a, a_size, b, b_size, merged) runs
MgMerge ==
    /\ mg_main = "alloc"
    /\ mg_merged' = merge_sorted_arrays(mg_a, mg_b)
    /\ mg_main' = "merged"
    /\ UNCHANGED << mg_a, mg_b >>
    /\ UNCHANGED << notMg, osVars >>

\* malloc returns NULL: print_error("Memory allocation failed") and exit(1)
MgAllocFail ==
    /\ mg_main = "alloc"
    /\ std_err' = Append(std_err, "Memory allocation failed")
    /\ exit_status' = 1
    /\ mg_main' = "exit"
    /\ UNCHANGED << mg_a, mg_b, mg_merged >>
    /\ UNCHANGED << notMg >>

\* the arrays are printed and freed, main returns 0
MgReturn ==
    /\ mg_main = "merged"
    /\ exit_status' = 0
    /\ mg_main' = "exit"
    /\ UNCHANGED << mg_a, mg_b, mg_merged >>
    /\ UNCHANGED << notMg, std_err >>

MgNext == MgMerge \/ MgAllocFail \/ MgReturn

(***************************************************************************)
(* tasks-02/task-03: the command line of the pyramid printer               *)
(***************************************************************************)
MAX_ROWS == 300
MAX_COLS == 300
MAX_SYMBOLS == 50

\* the option names compared with strcmp
OptHelp == << "-", "-", "h", "e", "l", "p" >>
OptHelpShort == << "-", "h" >>
OptRows == << "-", "-", "r", "o", "w", "s" >>
OptRowsShort == << "-", "r", "o", "w" >>
OptColumns == << "-", "-", "c", "o", "l", "u", "m", "n", "s" >>
OptColumnsShort == << "-", "c", "o", "l" >>
OptSymbols == << "-", "-", "s", "y", "m", "b", "o", "l", "s" >>
OptSymbolsShort == << "-", "s" >>
OptThreads == << "-", "-", "t", "h", "r", "e", "a", "d", "s" >>
OptThreadsShort == << "-", "t" >>

\* the arguments a command line is made of
PyArguments ==
    { OptHelp, OptRows, OptColumns, OptSymbols, OptThreads,
      << "4" >>, << "0" >>, << "3", "0", "1" >>, << "x", ",", "y" >> }

IsDigit(c) == c \in {"0", "1", "2", "3", "4", "5", "6", "7", "8", "9"}

DigitValue(c) ==
    CASE c = "0" -> 0 [] c = "1" -> 1 [] c = "2" -> 2 [] c = "3" -> 3 [] c = "4" -> 4
      [] c = "5" -> 5 [] c = "6" -> 6 [] c = "7" -> 7 [] c = "8" -> 8 [] c = "9" -> 9

RECURSIVE atoi_digits(_, _, _)
atoi_digits(str, k, value) ==
    IF k <= Len(str) /\ IsDigit(str[k])
    THEN atoi_digits(str, k + 1, value * 10 + DigitValue(str[k]))
    ELSE value

\* atoi: an optional sign, then the leading digits; 0 when there are none
atoi(str) ==
    IF str # << >> /\ str[1] = "-" THEN 0 - atoi_digits(str, 2, 0)
    ELSE IF str # << >> /\ str[1] = "+" THEN atoi_digits(str, 2, 0)
    ELSE atoi_digits(str, 1, 0)

\* strchr(str, ','): the position of the first comma, 0 when there is none
strchr_comma(str) ==
    IF \E k \in 1 .. Len(str) : str[k] = ","
    THEN CHOOSE k \in 1 .. Len(str) : str[k] = "," /\ \A m \in 1 .. k - 1 : str[m] # ","
    ELSE 0

\* the --symbols branch: "left,right" or one set of symbols for both pyramids
parse_symbols(config, str) ==
    IF strchr_comma(str) # 0
    THEN [config EXCEPT
            !.left_symbols =
                IF strchr_comma(str) - 1 > 0 /\ strchr_comma(str) - 1 < MAX_SYMBOLS - 1
                THEN SubSeq(str, 1, strchr_comma(str) - 1)
                ELSE @,
            !.right_symbols =
                IF Len(str) - strchr_comma(str) > 0
                   /\ Len(str) - strchr_comma(str) < MAX_SYMBOLS - 1
                THEN SubSeq(str, strchr_comma(str) + 1, Len(str))
                ELSE @]
    ELSE IF Len(str) > 0 /\ Len(str) < MAX_SYMBOLS - 1
         THEN [config EXCEPT !.left_symbols = str, !.right_symbols = str]
         ELSE config

set_default_config ==
    [rows |-> 5, columns |-> 5, left_symbols |-> << "A" >>, right_symbols |-> << "B" >>,
     help |-> FALSE, threads |-> 1]

PyOff ==
    /\ py_argv = << >> /\ py_i = 0 /\ py_config = << >>
    /\ py_out = "" /\ py_main = "off"

\* main has called set_default_config and enters parse_args with i = 1
PyInit ==
    /\ py_argv \in UNION {[1 .. n -> PyArguments] : n \in 0 .. MaxArgs}
    /\ py_i = 1
    /\ py_config = set_default_config
    /\ py_out = ""
    /\ py_main = "parse_args"

\* the loop of parse_args is at argv[i], one of the names given
PyAt(names) ==
    /\ py_main = "parse_args"
    /\ py_i <= Len(py_argv)
    /\ py_argv[py_i] \in names

\* ++i < argc
PyHasValue == py_i + 1 <= Len(py_argv)

PyOptionHelp ==
    /\ PyAt({OptHelp, OptHelpShort})
    /\ py_config' = [py_config EXCEPT !.help = TRUE]
    /\ py_i' = py_i + 1
    /\ UNCHANGED << py_argv, py_out, py_main >>
    /\ UNCHANGED << notPy, osVars >>

\* An option that takes a value: with a value (++i < argc) the configuration
\* is updated, without one print_error is called and the loop goes on.

\* --rows: config->rows = atoi(argv[i])
PyOptionRows ==
    /\ PyAt({OptRows, OptRowsShort})
    /\ IF PyHasValue
       THEN /\ py_config' = [py_config EXCEPT !.rows = atoi(py_argv[py_i + 1])]
            /\ UNCHANGED std_err
       ELSE /\ std_err' = Append(std_err, "Missing value for rows parameter")
            /\ UNCHANGED py_config
    /\ py_i' = py_i + 2
    /\ UNCHANGED << py_argv, py_out, py_main >>
    /\ UNCHANGED << notPy, exit_status >>

\* --columns: config->columns = atoi(argv[i])
PyOptionColumns ==
    /\ PyAt({OptColumns, OptColumnsShort})
    /\ IF PyHasValue
       THEN /\ py_config' = [py_config EXCEPT !.columns = atoi(py_argv[py_i + 1])]
            /\ UNCHANGED std_err
       ELSE /\ std_err' = Append(std_err, "Missing value for columns parameter")
            /\ UNCHANGED py_config
    /\ py_i' = py_i + 2
    /\ UNCHANGED << py_argv, py_out, py_main >>
    /\ UNCHANGED << notPy, exit_status >>

\* --symbols
PyOptionSymbols ==
    /\ PyAt({OptSymbols, OptSymbolsShort})
    /\ IF PyHasValue
       THEN /\ py_config' = parse_symbols(py_config, py_argv[py_i + 1])
            /\ UNCHANGED std_err
       ELSE /\ std_err' = Append(std_err, "Missing value for symbols parameter")
            /\ UNCHANGED py_config
    /\ py_i' = py_i + 2
    /\ UNCHANGED << py_argv, py_out, py_main >>
    /\ UNCHANGED << notPy, exit_status >>

\* config->threads = atoi(argv[i]); if (config->threads < 1) config->threads = 1;
set_threads(config, str) ==
    [config EXCEPT !.threads = IF atoi(str) < 1 THEN 1 ELSE atoi(str)]

\* --threads
PyOptionThreads ==
    /\ PyAt({OptThreads, OptThreadsShort})
    /\ IF PyHasValue
       THEN /\ py_config' = set_threads(py_config, py_argv[py_i + 1])
            /\ UNCHANGED std_err
       ELSE /\ std_err' = Append(std_err, "Missing value for threads parameter")
            /\ UNCHANGED py_config
    /\ py_i' = py_i + 2
    /\ UNCHANGED << py_argv, py_out, py_main >>
    /\ UNCHANGED << notPy, exit_status >>

\* an argument that is none of the options is passed over
PyOtherArgument ==
    /\ py_main = "parse_args"
    /\ py_i <= Len(py_argv)
    /\ py_argv[py_i] \notin {OptHelp, OptHelpShort, OptRows, OptRowsShort, OptColumns,
                               OptColumnsShort, OptSymbols, OptSymbolsShort,
                               OptThreads, OptThreadsShort}
    /\ py_i' = py_i + 1
    /\ UNCHANGED << py_argv, py_config, py_out, py_main >>
    /\ UNCHANGED << notPy, osVars >>

\* parse_args returns
PyParsed ==
    /\ py_main = "parse_args"
    /\ py_i > Len(py_argv)
    /\ py_main' = "check"
    /\ UNCHANGED << py_argv, py_i, py_config, py_out >>
    /\ UNCHANGED << notPy, osVars >>

\* if (config.help) { print_help(); return 0; }
PyHelp ==
    /\ py_main = "check"
    /\ py_config.help
    /\ py_out' = "help"
    /\ exit_status' = 0
    /\ py_main' = "exit"
    /\ UNCHANGED << py_argv, py_i, py_config >>
    /\ UNCHANGED << notPy, std_err >>

PyInvalidRows ==
    /\ py_main = "check"
    /\ ~ py_config.help
    /\ (py_config.rows < 1 \/ py_config.rows > MAX_ROWS)
    /\ std_err' = Append(std_err, "Number of rows must be between 1 and 300")
    /\ exit_status' = 1
    /\ py_main' = "exit"
    /\ UNCHANGED << py_argv, py_i, py_config, py_out >>
    /\ UNCHANGED << notPy >>

PyInvalidColumns ==
    /\ py_main = "check"
    /\ ~ py_config.help
    /\ ~ (py_config.rows < 1 \/ py_config.rows > MAX_ROWS)
    /\ (py_config.columns < 1 \/ py_config.columns > MAX_COLS)
    /\ std_err' = Append(std_err, "Number of columns must be between 1 and 300")
    /\ exit_status' = 1
    /\ py_main' = "exit"
    /\ UNCHANGED << py_argv, py_i, py_config, py_out >>
    /\ UNCHANGED << notPy >>

\* the configuration is valid: the pyramids are printed and main returns 0
PyPrint ==
    /\ py_main = "check"
    /\ ~ py_config.help
    /\ ~ (py_config.rows < 1 \/ py_config.rows > MAX_ROWS)
    /\ ~ (py_config.columns < 1 \/ py_config.columns > MAX_COLS)
    /\ py_out' = "pyramids"
    /\ exit_status' = 0
    /\ py_main' = "exit"
    /\ UNCHANGED << py_argv, py_i, py_config >>
    /\ UNCHANGED << notPy, std_err >>

PyNext ==
    \/ PyOptionHelp \/ PyOptionRows \/ PyOptionColumns \/ PyOptionSymbols
    \/ PyOptionThreads \/ PyOtherArgument \/ PyParsed
    \/ PyHelp \/ PyInvalidRows \/ PyInvalidColumns \/ PyPrint

(***************************************************************************)
(* tasks-04: read_matrix_from_file, and main up to the call of             *)
(* matrix_transpose or matrix_multiply                                     *)
(***************************************************************************)
MAX_DIM == 100
\* sizeof(line)
LINE_SIZE == 1024

NUL == "NUL"

\* the character at position p of a buffer; what lies behind the characters
\* that are kept is NUL
CharAt(buf, p) == IF p \in 1 .. Len(buf) THEN buf[p] ELSE NUL

\* seq repeated n times
Repeat(seq, n) == [k \in 1 .. n * Len(seq) |-> seq[((k - 1) % Len(seq)) + 1]]

RECURSIVE JoinWith(_, _)
JoinWith(parts, sep) ==
    IF parts = << >> THEN << >>
    ELSE IF Len(parts) = 1 THEN parts[1]
    ELSE parts[1] \o sep \o JoinWith(Tail(parts), sep)

\* the tokens the small files are made of
FileTokens == {<< "5" >>, << "1", "e", "2" >>}

SmallLines ==
    {JoinWith(toks, << " " >>) :
        toks \in UNION {[1 .. n -> FileTokens] : n \in 0 .. MaxLineTokens}}

\* every file of at most MaxFileLines lines; the last line may lack its newline
SmallFiles ==
    UNION {UNION {{JoinWith(lines, << "\n" >>) \o << "\n" >>, JoinWith(lines, << "\n" >>)} :
                     lines \in [1 .. n -> SmallLines]} : n \in 0 .. MaxFileLines}

ColumnFile(n) == Repeat(<< "1", "\n" >>, n)
RowFile(n) == Repeat(<< "1", " " >>, n) \o << "\n" >>

\* files at the limits of the Matrix: MAX_DIM and MAX_DIM + 1 rows or columns
LimitFiles ==
    {ColumnFile(MAX_DIM), ColumnFile(MAX_DIM + 1), RowFile(MAX_DIM), RowFile(MAX_DIM + 1)}

\* files with other separators and with tokens that are not numbers
OtherFiles ==
    { << "1", "\t", "2", "\n", "3", "\t", "4", "\n" >>,
      << " ", "\n", "1", " ", "2", "\n" >>,
      << "1", " ", "-", "\n" >>,
      << "x", "\n" >>,
      << "N", "a", "N", " ", "-", "2", ".", "5", "e", "-", "1", "\n" >> }

MatrixFiles == SmallFiles \cup LimitFiles \cup OtherFiles

\* the pairs of files given to the multiplication
MultiplyFiles ==
    { ColumnFile(MAX_DIM), RowFile(MAX_DIM), << "5", " ", "5", "\n", "5", " ", "5", "\n" >>,
      << "5", " ", "5", "\n" >>, << "5", " ", "5", "\n", "5" >> }

\* what char line[1024] may hold before the first fgets: the frame is not
\* initialised
UninitializedLine == {<< >>, << "7", "7", "7", "7", "7", "7", "7", "7" >>}

\* fgets(line, sizeof(line), file): the characters up to and including the
\* next newline, at most LINE_SIZE - 1 of them
fgets_length(file, pos) ==
    IF \E p \in pos + 1 .. pos + LINE_SIZE - 1 : p <= Len(file) /\ file[p] = "\n"
    THEN (CHOOSE p \in pos + 1 .. pos + LINE_SIZE - 1 :
              /\ p <= Len(file) /\ file[p] = "\n"
              /\ \A q \in pos + 1 .. p - 1 : file[q] # "\n") - pos
    ELSE IF Len(file) - pos < LINE_SIZE - 1 THEN Len(file) - pos ELSE LINE_SIZE - 1

\* line[] after fgets: the characters read, the terminator, and behind it
\* what the buffer held before
fgets(buf, file, pos) ==
    SubSeq(file, pos + 1, pos + fgets_length(file, pos)) \o << NUL >>
        \o SubSeq(buf, fgets_length(file, pos) + 2, Len(buf))

strlen(buf) ==
    IF \E p \in 1 .. Len(buf) : buf[p] = NUL
    THEN (CHOOSE p \in 1 .. Len(buf) : buf[p] = NUL /\ \A q \in 1 .. p - 1 : buf[q] # NUL) - 1
    ELSE Len(buf)

\* isdigit(*ptr) || *ptr == '-' || *ptr == '.'
IsNumberChar(c) == IsDigit(c) \/ c = "-" \/ c = "."

\* a run of number characters begins at p
RunStart(buf, p) ==
    IsNumberChar(CharAt(buf, p)) /\ (p = 1 \/ ~ IsNumberChar(CharAt(buf, p - 1)))

\* while (*ptr != '\0') ends at p: p holds a terminator and ptr comes to look
\* at it. The inner while leaves ptr on the character behind a run and the
\* ptr++ that follows steps over that character unseen, so that a terminator
\* directly behind a run does not end the loop.
ScanStopsAt(buf, p) ==
    CharAt(buf, p) = NUL /\ (p = 1 \/ ~ IsNumberChar(CharAt(buf, p - 1)))

ScanEnd(buf) ==
    CHOOSE p \in 1 .. Len(buf) + 2 :
        ScanStopsAt(buf, p) /\ \A q \in 1 .. p - 1 : ~ ScanStopsAt(buf, q)

\* current_cols after the loop over line[]: the runs of number characters
\* that begin before the loop ends
count_cols(buf) == Cardinality({p \in 1 .. ScanEnd(buf) - 1 : RunStart(buf, p)})

IsDelimiter(c) == c \in {" ", "\t", "\n"}

\* the positions in str at which a token of strtok(line, " \t\n") begins
TokenStarts(str) ==
    {p \in 1 .. Len(str) : ~ IsDelimiter(str[p]) /\ (p = 1 \/ IsDelimiter(str[p - 1]))}

TokenEnd(str, p) ==
    CHOOSE q \in p .. Len(str) :
        /\ \A m \in p .. q : ~ IsDelimiter(str[m])
        /\ (q = Len(str) \/ IsDelimiter(str[q + 1]))

\* the tokens strtok returns, in order
strtok_all(str) ==
    [k \in 1 .. Cardinality(TokenStarts(str)) |->
        LET p == CHOOSE p \in TokenStarts(str) :
                     Cardinality({q \in TokenStarts(str) : q < p}) = k - 1
        IN SubSeq(str, p, TokenEnd(str, p))]

\* line[] after the strtok calls: the delimiter that ends a token is
\* overwritten with a terminator
strtok_marks(buf) ==
    [p \in 1 .. Len(buf) |->
        IF p <= strlen(buf) /\ p > 1 /\ IsDelimiter(buf[p]) /\ ~ IsDelimiter(buf[p - 1])
        THEN NUL ELSE buf[p]]

\* the values of a double that the reader can produce: num * 10^(-scale), the
\* infinities and NaN
Decimal(num, scale) == [cls |-> "fin", num |-> num, scale |-> scale]
Infinity(negative) == [cls |-> "inf", negative |-> negative]
NotANumber == [cls |-> "nan"]

LowerCase(c) ==
    CASE c = "I" -> "i" [] c = "N" -> "n" [] c = "F" -> "f" [] c = "A" -> "a"
      [] c = "E" -> "e" [] OTHER -> c

RECURSIVE digits_end(_, _)
digits_end(str, p) == IF IsDigit(CharAt(str, p)) THEN digits_end(str, p + 1) ELSE p

RECURSIVE digits_value(_, _, _, _)
digits_value(str, p, end, value) ==
    IF p < end
    THEN digits_value(str, p + 1, end,
                      IF IsDigit(str[p]) THEN value * 10 + DigitValue(str[p]) ELSE value)
    ELSE value

\* sscanf(token, "%lf", &cell): an optional sign, then inf, nan, or digits with
\* an optional point and an optional exponent; ok is FALSE when sscanf does
\* not return 1. What follows the number in the token is not looked at.
scan_double(token) ==
    LET negative == CharAt(token, 1) = "-"
        start == IF CharAt(token, 1) \in {"-", "+"} THEN 2 ELSE 1
        word == << LowerCase(CharAt(token, start)), LowerCase(CharAt(token, start + 1)),
                   LowerCase(CharAt(token, start + 2)) >>
        int_end == digits_end(token, start)
        frac_end == IF CharAt(token, int_end) = "." THEN digits_end(token, int_end + 1)
                    ELSE int_end
        frac_digits == IF frac_end > int_end THEN frac_end - int_end - 1 ELSE 0
        digits == (int_end - start) + frac_digits
        exp_start == IF CharAt(token, frac_end + 1) \in {"-", "+"} THEN frac_end + 2
                     ELSE frac_end + 1
        has_exp == LowerCase(CharAt(token, frac_end)) = "e" /\ IsDigit(CharAt(token, exp_start))
        exp_abs == digits_value(token, exp_start, digits_end(token, exp_start), 0)
        exponent == IF ~ has_exp THEN 0
                    ELSE IF CharAt(token, frac_end + 1) = "-" THEN 0 - exp_abs ELSE exp_abs
        mantissa == digits_value(token, start, frac_end, 0)
    IN  IF word = << "i", "n", "f" >> THEN [ok |-> TRUE, value |-> Infinity(negative)]
        ELSE IF word = << "n", "a", "n" >> THEN [ok |-> TRUE, value |-> NotANumber]
        ELSE IF digits = 0 THEN [ok |-> FALSE, value |-> NotANumber]
        ELSE [ok |-> TRUE,
              value |-> Decimal(IF negative THEN 0 - mantissa ELSE mantissa,
                                frac_digits - exponent)]

\* the test that ends the inner loop of the second pass at token k, "" if
\* the token is stored
TokenError(tokens, k, index) ==
    IF index + k - 1 >= MAX_DIM * MAX_DIM THEN "Matrix data exceeds maximum capacity"
    ELSE IF ~ scan_double(tokens[k]).ok THEN "Invalid matrix data format"
    ELSE ""

\* the inner loop of the second pass over the tokens of one line: the values
\* stored in data[index], data[index + 1], ... and the error that ended the
\* loop, if any
scan_tokens(tokens, index) ==
    LET failed == {k \in 1 .. Len(tokens) : TokenError(tokens, k, index) # ""}
        stored == IF failed = {} THEN Len(tokens)
                  ELSE (CHOOSE k \in failed : \A m \in failed : k <= m) - 1
    IN  [values |-> [k \in 1 .. stored |-> scan_double(tokens[k]).value],
         error |-> IF failed = {} THEN "" ELSE TokenError(tokens, stored + 1, index)]

\* data[index .. index + Len(values) - 1] = values
StoreValues(data, index, values) ==
    [x \in 0 .. index + Len(values) - 1 |->
        IF x < index THEN data[x] ELSE values[x - index + 1]]

\* if (rows > MAX_DIM || cols > MAX_DIM)
ExceedsRows(rows, cols) == rows > MAX_DIM
ExceedsMaximum(rows, cols) == rows > MAX_DIM \/ cols > MAX_DIM

NoResult == [rows |-> 0, cols |-> 0]

RdOff ==
    /\ rd_op = "none" /\ rd_files = << >> /\ rd_k = 0 /\ rd_pos = 0 /\ rd_line = << >>
    /\ rd_rows = 0 /\ rd_cols = 0 /\ rd_index = 0 /\ rd_mat = NoMatrix
    /\ rd_loaded = << >> /\ rd_result = NoResult /\ rd_main = "off"

\* main has opened the first input file; read_matrix_from_file starts its
\* first pass with rows = 0 and cols = 0
RdInit ==
    /\ \/ rd_op = "transpose" /\ rd_files \in {<< f >> : f \in MatrixFiles}
       \/ rd_op = "multiply" /\ rd_files \in [1 .. 2 -> MultiplyFiles]
    /\ rd_k = 1
    /\ rd_pos = 0
    /\ rd_line \in UninitializedLine
    /\ rd_rows = 0 /\ rd_cols = 0 /\ rd_index = 0
    /\ rd_mat = NoMatrix
    /\ rd_loaded = << >>
    /\ rd_result = NoResult
    /\ rd_main = "first_pass"

RdFile == rd_files[rd_k]

\* fgets returns a line
RdHasLine(pass) == rd_main = pass /\ rd_pos < Len(RdFile)

RdNextLine == fgets(rd_line, RdFile, rd_pos)

\* print_error(message), fclose, return false; main calls exit(1)
RdFail(message) ==
    /\ std_err' = Append(std_err, message)
    /\ exit_status' = 1
    /\ rd_main' = "exit"

\* one line of the first pass: a line shorter than 2 is passed over, the first
\* counted line (or any line while cols is 0) sets cols, a later one has to
\* agree with it
RdCountLine ==
    /\ RdHasLine("first_pass")
    /\ rd_line' = RdNextLine
    /\ rd_pos' = rd_pos + fgets_length(RdFile, rd_pos)
    /\ IF strlen(RdNextLine) < 2
       THEN UNCHANGED << rd_rows, rd_cols, rd_main, osVars >>
       ELSE IF rd_cols = 0
            THEN /\ rd_cols' = count_cols(RdNextLine)
                 /\ rd_rows' = rd_rows + 1
                 /\ UNCHANGED << rd_main, osVars >>
            ELSE IF count_cols(RdNextLine) # rd_cols
                 THEN /\ RdFail("Inconsistent column count in matrix file")
                      /\ UNCHANGED << rd_rows, rd_cols >>
                 ELSE /\ rd_rows' = rd_rows + 1
                      /\ UNCHANGED << rd_cols, rd_main, osVars >>
    /\ UNCHANGED << rd_op, rd_files, rd_k, rd_index, rd_mat, rd_loaded, rd_result >>
    /\ UNCHANGED notRd

\* the first pass is over and the dimensions exceed MAX_DIM
RdTooLarge ==
    /\ rd_main = "first_pass"
    /\ rd_pos >= Len(RdFile)
    /\ ExceedsMaximum(rd_rows, rd_cols)
    /\ RdFail("Matrix dimensions exceed maximum allowed size")
    /\ UNCHANGED << rd_op, rd_files, rd_k, rd_pos, rd_line, rd_rows, rd_cols, rd_index,
                    rd_mat, rd_loaded, rd_result >>
    /\ UNCHANGED notRd

\* the first pass is over: rewind, mat->rows = rows, mat->cols = cols, index = 0
RdRewind ==
    /\ rd_main = "first_pass"
    /\ rd_pos >= Len(RdFile)
    /\ ~ ExceedsMaximum(rd_rows, rd_cols)
    /\ rd_pos' = 0
    /\ rd_mat' = [rows |-> rd_rows, cols |-> rd_cols, data |-> << >>]
    /\ rd_index' = 0
    /\ rd_main' = "second_pass"
    /\ UNCHANGED << rd_op, rd_files, rd_k, rd_line, rd_rows, rd_cols, rd_loaded, rd_result >>
    /\ UNCHANGED << notRd, osVars >>

\* the tokens of the line the second pass reads next
RdTokens == strtok_all(SubSeq(RdNextLine, 1, strlen(RdNextLine)))

RdScanned == scan_tokens(RdTokens, rd_index)

\* one line of the second pass: every token is stored in data[index++]
RdDataLine ==
    /\ RdHasLine("second_pass")
    /\ rd_line' = IF strlen(RdNextLine) < 2 THEN RdNextLine ELSE strtok_marks(RdNextLine)
    /\ rd_pos' = rd_pos + fgets_length(RdFile, rd_pos)
    /\ IF strlen(RdNextLine) < 2
       THEN UNCHANGED << rd_index, rd_mat, rd_main, osVars >>
       ELSE /\ rd_mat' = [rd_mat EXCEPT
                             !.data = StoreValues(@, rd_index, RdScanned.values)]
            /\ rd_index' = rd_index + Len(RdScanned.values)
            /\ IF RdScanned.error # ""
               THEN RdFail(RdScanned.error)
               ELSE UNCHANGED << rd_main, osVars >>
    /\ UNCHANGED << rd_op, rd_files, rd_k, rd_rows, rd_cols, rd_loaded, rd_result >>
    /\ UNCHANGED notRd

\* the second pass is over: read_matrix_from_file returns true and main goes
\* on, with the next input file if there is one; the frame of the next call
\* holds what the build left there
RdLoaded ==
    /\ rd_main = "second_pass"
    /\ rd_pos >= Len(RdFile)
    /\ rd_loaded' = Append(rd_loaded, rd_mat)
    /\ IF rd_k < Len(rd_files)
       THEN /\ rd_k' = rd_k + 1
            /\ rd_pos' = 0 /\ rd_rows' = 0 /\ rd_cols' = 0 /\ rd_index' = 0
            /\ rd_line' \in UninitializedLine \cup {rd_line}
            /\ rd_mat' = NoMatrix
            /\ rd_main' = "first_pass"
       ELSE /\ rd_main' = "loaded"
            /\ UNCHANGED << rd_k, rd_pos, rd_rows, rd_cols, rd_index, rd_line, rd_mat >>
    /\ UNCHANGED << rd_op, rd_files, rd_result >>
    /\ UNCHANGED << notRd, osVars >>

\* case OP_MATRIX_TRANSPOSE: result.rows = mat.cols; result.cols = mat.rows
RdTransposeResult ==
    /\ rd_main = "loaded"
    /\ rd_op = "transpose"
    /\ rd_result' = [rows |-> rd_loaded[1].cols, cols |-> rd_loaded[1].rows]
    /\ rd_main' = "matrix_transpose"
    /\ UNCHANGED << rd_op, rd_files, rd_k, rd_pos, rd_line, rd_rows, rd_cols, rd_index,
                    rd_mat, rd_loaded >>
    /\ UNCHANGED << notRd, osVars >>

\* case OP_MATRIX_MULTIPLY with a.cols != b.rows
RdMultiplyReject ==
    /\ rd_main = "loaded"
    /\ rd_op = "multiply"
    /\ rd_loaded[1].cols # rd_loaded[2].rows
    /\ RdFail("Matrix dimensions incompatible for multiplication")
    /\ UNCHANGED << rd_op, rd_files, rd_k, rd_pos, rd_line, rd_rows, rd_cols, rd_index,
                    rd_mat, rd_loaded, rd_result >>
    /\ UNCHANGED notRd

\* case OP_MATRIX_MULTIPLY: result.rows = a.rows; result.cols = b.cols
RdMultiplyResult ==
    /\ rd_main = "loaded"
    /\ rd_op = "multiply"
    /\ rd_loaded[1].cols = rd_loaded[2].rows
    /\ rd_result' = [rows |-> rd_loaded[1].rows, cols |-> rd_loaded[2].cols]
    /\ rd_main' = "matrix_multiply"
    /\ UNCHANGED << rd_op, rd_files, rd_k, rd_pos, rd_line, rd_rows, rd_cols, rd_index,
                    rd_mat, rd_loaded >>
    /\ UNCHANGED << notRd, osVars >>

RdNext ==
    \/ RdCountLine \/ RdTooLarge \/ RdRewind \/ RdDataLine \/ RdLoaded
    \/ RdTransposeResult \/ RdMultiplyReject \/ RdMultiplyResult

(***************************************************************************)
(* tasks-02/task-13-15: print_numbers_with_sum                             *)
(***************************************************************************)
RECURSIVE sum_digits_loop(_, _)
\* while (num != 0) { sum += num % 10; num /= 10; }
sum_digits_loop(num, sum) ==
    IF num # 0 THEN sum_digits_loop(num \div 10, sum + (num % 10)) ELSE sum

sum_digits(num) == sum_digits_loop(num, 0)

DsThreads == 0 .. ds_threads - 1

DsOff ==
    /\ ds_limit = 0 /\ ds_threads = 0 /\ ds_target = 0 /\ ds_owner = << >>
    /\ ds_pc = << >> /\ ds_i = << >> /\ ds_k = << >> /\ ds_crit = FREE
    /\ numbers = << >> /\ ds_count = 0 /\ ds_output = << >> /\ ds_main = "off"

\* main calls print_numbers_with_sum (sum_target > 0 and limit > 0): numbers is
\* about to be allocated. The loop has no schedule clause: each thread gets a
\* contiguous share of the iterations.
DsInit ==
    /\ ds_limit \in 1 .. MaxSumLimit
    /\ ds_threads \in 1 .. MaxSumThreads
    /\ ds_target \in 1 .. MaxSumTarget
    /\ ds_owner \in [1 .. ds_limit -> DsThreads]
    /\ (\A i \in DOMAIN ds_owner : i >= 2 => ds_owner[i] >= ds_owner[i - 1])
    /\ ds_pc = [w \in DsThreads |-> "wait"]
    /\ ds_i = [w \in DsThreads |-> 0]
    /\ ds_k = [w \in DsThreads |-> 0]
    /\ ds_crit = FREE
    /\ numbers = << >>
    /\ ds_count = 0
    /\ ds_output = << >>
    /\ ds_main = "alloc"

\* numbers = malloc(limit * sizeof(long long)) returns the buffer (its cells
\* are unwritten, shown as 0); count = 0 and the threads enter the loop
DsAlloc ==
    /\ ds_main = "alloc"
    /\ numbers' = [k \in 0 .. ds_limit - 1 |-> 0]
    /\ ds_pc' = [w \in DsThreads |-> "idle"]
    /\ ds_main' = "parallel"
    /\ UNCHANGED << ds_limit, ds_threads, ds_target, ds_owner, ds_i, ds_k, ds_crit,
                    ds_count, ds_output >>
    /\ UNCHANGED << notDs, osVars >>

\* malloc returns NULL: print_error("Memory allocation failed"); exit(1);
DsAllocFail ==
    /\ ds_main = "alloc"
    /\ std_err' = Append(std_err, "Memory allocation failed")
    /\ exit_status' = 1
    /\ ds_main' = "exit"
    /\ UNCHANGED << ds_limit, ds_threads, ds_target, ds_owner, ds_pc, ds_i, ds_k,
                    ds_crit, numbers, ds_count, ds_output >>
    /\ UNCHANGED notDs

\* the iterations of thread w that it has not begun
DsRemaining(w) == {i \in 1 .. ds_limit : ds_owner[i] = w /\ i > ds_i[w]}

\* the thread begins its next iteration
DsIterate(w) ==
    /\ ds_main = "parallel"
    /\ ds_pc[w] = "idle"
    /\ DsRemaining(w) # {}
    /\ ds_i' = [ds_i EXCEPT ![w] = CHOOSE i \in DsRemaining(w) :
                                       \A m \in DsRemaining(w) : i <= m]
    /\ ds_pc' = [ds_pc EXCEPT ![w] = "test"]
    /\ UNCHANGED << ds_limit, ds_threads, ds_target, ds_owner, ds_k, ds_crit, numbers,
                    ds_count, ds_output, ds_main >>
    /\ UNCHANGED << notDs, osVars >>

\* no iteration is left: the thread waits at the end of the loop
DsFinish(w) ==
    /\ ds_main = "parallel"
    /\ ds_pc[w] = "idle"
    /\ DsRemaining(w) = {}
    /\ ds_pc' = [ds_pc EXCEPT ![w] = "done"]
    /\ UNCHANGED << ds_limit, ds_threads, ds_target, ds_owner, ds_i, ds_k, ds_crit,
                    numbers, ds_count, ds_output, ds_main >>
    /\ UNCHANGED << notDs, osVars >>

\* if (sum_digits(i) == config->sum_target)
DsTest(w) ==
    /\ ds_pc[w] = "test"
    /\ ds_pc' = [ds_pc EXCEPT
                    ![w] = IF sum_digits(ds_i[w]) = ds_target THEN "enter" ELSE "idle"]
    /\ UNCHANGED << ds_limit, ds_threads, ds_target, ds_owner, ds_i, ds_k, ds_crit,
                    numbers, ds_count, ds_output, ds_main >>
    /\ UNCHANGED << notDs, osVars >>

\* entry to #pragma omp critical, and the read of count in numbers[count++]
DsEnter(w) ==
    /\ ds_pc[w] = "enter"
    /\ ds_crit = FREE
    /\ ds_crit' = w
    /\ ds_k' = [ds_k EXCEPT ![w] = ds_count]
    /\ ds_pc' = [ds_pc EXCEPT ![w] = "append"]
    /\ UNCHANGED << ds_limit, ds_threads, ds_target, ds_owner, ds_i, numbers,
                    ds_count, ds_output, ds_main >>
    /\ UNCHANGED << notDs, osVars >>

\* the stores of numbers[count++] = i; and the end of the critical section
\* (the value read for count is dead afterwards and is cleared)
DsAppend(w) ==
    /\ ds_pc[w] = "append"
    /\ numbers' = [numbers EXCEPT ![ds_k[w]] = ds_i[w]]
    /\ ds_count' = ds_k[w] + 1
    /\ ds_crit' = FREE
    /\ ds_pc' = [ds_pc EXCEPT ![w] = "idle"]
    /\ ds_k' = [ds_k EXCEPT ![w] = 0]
    /\ UNCHANGED << ds_limit, ds_threads, ds_target, ds_owner, ds_i, ds_output, ds_main >>
    /\ UNCHANGED << notDs, osVars >>

\* the barrier that ends the parallel loop, then print_numbers_in_rows, free;
\* main prints the time and returns 0
DsPrint ==
    /\ ds_main = "parallel"
    /\ \A w \in DsThreads : ds_pc[w] = "done"
    /\ ds_output' = [k \in 1 .. ds_count |-> numbers[k - 1]]
    /\ ds_main' = "done"
    /\ exit_status' = 0
    /\ UNCHANGED << ds_limit, ds_threads, ds_target, ds_owner, ds_pc, ds_i, ds_k,
                    ds_crit, numbers, ds_count >>
    /\ UNCHANGED << notDs, std_err >>

DsNext ==
    \/ DsAlloc
    \/ DsAllocFail
    \/ \E w \in DsThreads : DsIterate(w)
    \/ \E w \in DsThreads : DsFinish(w)
    \/ \E w \in DsThreads : DsTest(w)
    \/ \E w \in DsThreads : DsEnter(w)
    \/ \E w \in DsThreads : DsAppend(w)
    \/ DsPrint

(***************************************************************************)
(* tasks-05/task-1-2-3: the trees                                          *)
(***************************************************************************)
\* A node is named by the path of child indices that leads to it from the
\* root; the root is << >>.
NULL_NODE == << -1 >>

RECURSIVE PathsOfLength(_, _)
PathsOfLength(n, branches) ==
    IF n = 0 THEN {<< >>}
    ELSE {Append(path, i) : path \in PathsOfLength(n - 1, branches), i \in 0 .. branches - 1}

\* the nodes of a tree of the given depth
TreeNodes(depth, branches) == UNION {PathsOfLength(n, branches) : n \in 0 .. depth - 1}

\* the nodes of the tree under construction
TrNodes == DOMAIN tr_state

Parent(node) == SubSeq(node, 1, Len(node) - 1)
SlotOf(node) == node[Len(node)]

\* the depth argument of the call that builds the node
DepthArgument(node) == tr_depth - Len(node)

\* if (threads > 1) resp. if (threads > 1 && branches > 1): the children are
\* built by parallel sections resp. a parallel for
BuildsInParallel(node) ==
    IF tr_kind = "binary" THEN tr_call[node] > 1
    ELSE tr_call[node] > 1 /\ tr_branches > 1

\* num_threads(2) resp. num_threads(threads > branches ? branches : threads)
TeamSize(node) ==
    IF tr_kind = "binary" THEN 2
    ELSE IF tr_call[node] > tr_branches THEN tr_branches ELSE tr_call[node]

\* the threads argument given to the calls for the children
ChildThreads(node) ==
    IF ~ BuildsInParallel(node) THEN 1
    ELSE IF tr_kind = "binary" THEN tr_call[node] \div 2
    ELSE IF tr_call[node] \div tr_branches < 1 THEN 1 ELSE tr_call[node] \div tr_branches

\* the section or iteration for slot i of a node may begin: it has not run;
\* without a team the slots are taken in order, with a team at most TeamSize
\* of them are under way (in any order)
MayBegin(node, i) ==
    /\ tr_state[node] = "building"
    /\ tr_stores[node][i] = 0
    /\ IF BuildsInParallel(node)
       THEN Cardinality({j \in 0 .. tr_branches - 1 :
                            Append(node, j) \in TrNodes
                            /\ tr_state[Append(node, j)] = "building"}) < TeamSize(node)
       ELSE \A j \in 0 .. i - 1 : tr_stores[node][j] > 0

TrOff ==
    /\ tr_kind = "none" /\ tr_depth = 0 /\ tr_branches = 0 /\ tr_threads = 0
    /\ tr_state = << >> /\ tr_call = << >> /\ tr_children = << >> /\ tr_stores = << >>
    /\ tr_frees = << >> /\ tr_stack = << >> /\ tr_order = << >> /\ tr_stale = FALSE
    /\ tr_calc = 0 /\ tr_main = "off"

\* main is about to call create_binary_tree(depth, threads) or
\* create_mbranch_tree(depth, branches, threads); threads is 1 with --no-parallel
TrInit ==
    /\ tr_kind \in {"binary", "mbranch"}
    /\ tr_depth \in 1 .. MaxTreeDepth
    /\ tr_branches \in 1 .. MaxBranches
    /\ tr_kind = "binary" => tr_branches = 2
    /\ tr_threads \in 1 .. MaxTreeThreads
    /\ tr_state = [node \in TreeNodes(tr_depth, tr_branches) |-> "none"]
    /\ tr_call = [node \in TrNodes |-> 0]
    /\ tr_children = [node \in TrNodes |-> << >>]
    /\ tr_stores = [node \in TrNodes |-> [i \in 0 .. tr_branches - 1 |-> 0]]
    /\ tr_frees = [node \in TrNodes |-> [node |-> 0, children |-> 0]]
    /\ tr_stack = << >>
    /\ tr_order = << >>
    /\ tr_stale = FALSE
    /\ tr_calc = 0
    /\ tr_main = "create"

trBuilt == << tr_kind, tr_depth, tr_branches, tr_threads >>
trFreeing == << tr_frees, tr_stack, tr_order, tr_stale >>

\* a call with depth > 0 begins: the node and its children array are
\* allocated and every slot is set to NULL.  With depth 1 the calls for the
\* children return NULL at once (depth <= 0), and each section or iteration
\* stores it in its slot of the node, which no other thread has seen yet.
TrCall(node) ==
    /\ tr_main = "create"
    /\ node \in TrNodes
    /\ tr_state[node] = "none"
    /\ node # << >> => MayBegin(Parent(node), SlotOf(node))
    /\ tr_state' = [tr_state EXCEPT ![node] = "building"]
    /\ tr_call' = [tr_call EXCEPT
                      ![node] = IF node = << >> THEN tr_threads
                                ELSE ChildThreads(Parent(node))]
    /\ tr_children' = [tr_children EXCEPT
                          ![node] = [i \in 0 .. tr_branches - 1 |-> NULL_NODE]]
    /\ tr_stores' = IF DepthArgument(node) = 1
                    THEN [tr_stores EXCEPT ![node] = [i \in 0 .. tr_branches - 1 |-> @[i] + 1]]
                    ELSE tr_stores
    /\ UNCHANGED << trBuilt, trFreeing, tr_calc, tr_main >>
    /\ UNCHANGED << notTr, osVars >>

\* what a call that has built its node returns
ReturnsNull(node) == NULL_NODE
ReturnedNode(node) == node

\* every section or iteration of the node is over: the call returns the node
\* and the caller stores it in the slot
TrReturn(node) ==
    /\ tr_main = "create"
    /\ node \in TrNodes
    /\ tr_state[node] = "building"
    /\ \A i \in 0 .. tr_branches - 1 : tr_stores[node][i] > 0
    /\ tr_state' = [tr_state EXCEPT ![node] = "built"]
    /\ IF node = << >>
       THEN UNCHANGED << tr_children, tr_stores >>
       ELSE /\ tr_children' = [tr_children EXCEPT
                                  ![Parent(node)][SlotOf(node)] = ReturnedNode(node)]
            /\ tr_stores' = [tr_stores EXCEPT ![Parent(node)][SlotOf(node)] = @ + 1]
    /\ UNCHANGED << trBuilt, tr_call, trFreeing, tr_calc, tr_main >>
    /\ UNCHANGED << notTr, osVars >>

RECURSIVE binary_tree_depth(_)
binary_tree_depth(root) ==
    IF root = NULL_NODE THEN 0
    ELSE LET left_depth == IF tr_branches > 0 /\ tr_children[root][0] # NULL_NODE
                           THEN binary_tree_depth(tr_children[root][0]) ELSE 0
             right_depth == IF tr_branches > 1 /\ tr_children[root][1] # NULL_NODE
                            THEN binary_tree_depth(tr_children[root][1]) ELSE 0
         IN  1 + (IF left_depth > right_depth THEN left_depth ELSE right_depth)

RECURSIVE mbranch_max_depth(_, _, _)
\* the loop over the children, from child i on
mbranch_max_depth(root, i, max_depth) ==
    IF i < tr_branches
    THEN IF tr_children[root][i] # NULL_NODE
         THEN LET current_depth == 1 + mbranch_max_depth(tr_children[root][i], 0, 0)
              IN  mbranch_max_depth(root, i + 1,
                                    IF current_depth > max_depth THEN current_depth
                                    ELSE max_depth)
         ELSE mbranch_max_depth(root, i + 1, max_depth)
    ELSE max_depth

mbranch_tree_depth(root) ==
    IF root = NULL_NODE THEN 0 ELSE 1 + mbranch_max_depth(root, 0, 0)

\* the first call has returned root: main computes the depth, prints it and
\* calls free_tree(root)
TrDepth ==
    /\ tr_main = "create"
    /\ tr_state[<< >>] = "built"
    /\ tr_calc' = IF tr_kind = "binary" THEN binary_tree_depth(<< >>)
                  ELSE mbranch_tree_depth(<< >>)
    /\ tr_stack' = << [node |-> << >>, i |-> 0] >>
    /\ tr_main' = "free_tree"
    /\ UNCHANGED << trBuilt, tr_state, tr_call, tr_children, tr_stores, tr_frees,
                    tr_order, tr_stale >>
    /\ UNCHANGED << notTr, osVars >>

TrTop == tr_stack[Len(tr_stack)]

\* a frame that frees its node without a look at the children
LoopOverAtOnce(frame) == TRUE
\* i < root->child_count is false
LoopOver(frame) == frame.i >= tr_branches

\* free_tree reads root->child_count and root->children[i]
ReadsFreed(node) == tr_frees[node].node > 0 \/ tr_frees[node].children > 0

\* one pass of the loop of the frame on top: a child that is not NULL is
\* visited by a new frame
TrFreeChild ==
    /\ tr_main = "free_tree"
    /\ tr_stack # << >>
    /\ ~ LoopOver(TrTop)
    /\ tr_stale' = (tr_stale \/ ReadsFreed(TrTop.node))
    /\ tr_stack' =
          LET stepped == [tr_stack EXCEPT ![Len(tr_stack)].i = @ + 1]
          IN  IF tr_children[TrTop.node][TrTop.i] # NULL_NODE
              THEN Append(stepped, [node |-> tr_children[TrTop.node][TrTop.i], i |-> 0])
              ELSE stepped
    /\ UNCHANGED << trBuilt, tr_state, tr_call, tr_children, tr_stores, tr_frees,
                    tr_order, tr_calc, tr_main >>
    /\ UNCHANGED << notTr, osVars >>

\* the loop of the frame on top is over: free(root->children); free(root);
TrFreeNode ==
    /\ tr_main = "free_tree"
    /\ tr_stack # << >>
    /\ LoopOver(TrTop)
    /\ tr_stale' = (tr_stale \/ ReadsFreed(TrTop.node))
    /\ tr_frees' = [tr_frees EXCEPT ![TrTop.node] =
                       [node |-> @.node + 1, children |-> @.children + 1]]
    /\ tr_state' = [tr_state EXCEPT ![TrTop.node] = "freed"]
    /\ tr_order' = Append(tr_order, TrTop.node)
    /\ tr_stack' = SubSeq(tr_stack, 1, Len(tr_stack) - 1)
    /\ UNCHANGED << trBuilt, tr_call, tr_children, tr_stores, tr_calc, tr_main >>
    /\ UNCHANGED << notTr, osVars >>

\* free_tree(root) has returned; main returns 0
TrExit ==
    /\ tr_main = "free_tree"
    /\ tr_stack = << >>
    /\ tr_main' = "done"
    /\ exit_status' = 0
    /\ UNCHANGED << trBuilt, tr_state, tr_call, tr_children, tr_stores, trFreeing, tr_calc >>
    /\ UNCHANGED << notTr, std_err >>

TrNext ==
    \/ \E node \in TrNodes : TrCall(node)
    \/ \E node \in TrNodes : TrReturn(node)
    \/ TrDepth
    \/ TrFreeChild
    \/ TrFreeNode
    \/ TrExit

(***************************************************************************)
(* tasks-05/task-1-2-3: the linked list                                    *)
(***************************************************************************)
MAX_LIST_LENGTH == 26
NULL_PTR == 0

UpperLetters ==
    << "A", "B", "C", "D", "E", "F", "G", "H", "I", "J", "K", "L", "M",
       "N", "O", "P", "Q", "R", "S", "T", "U", "V", "W", "X", "Y", "Z" >>

\* the addresses malloc can hand out: room for the list and its copy
LsAddresses == DOMAIN ls_mem

\* malloc(sizeof(ListNode)): an address that is not allocated
malloc_node == CHOOSE addr \in LsAddresses \ ls_live :
                  \A other \in LsAddresses \ ls_live : addr <= other

\* the node copy_list begins with: the new node, or the head of the original
SharedHead(fresh, head) == head
NewHead(fresh, head) == fresh

\* a node is used (read, written or freed) that is not allocated
Stale(addr) == addr \notin ls_live

LsOff ==
    /\ ls_op = "none" /\ ls_show = FALSE /\ ls_length = 0 /\ ls_mem = << >>
    /\ ls_live = {} /\ ls_frees = << >> /\ ls_orig = {} /\ ls_head = 0 /\ ls_copy = 0
    /\ ls_cur = 0 /\ ls_prev = 0 /\ ls_new = 0 /\ ls_i = 0 /\ ls_line = << >>
    /\ ls_out = << >> /\ ls_stale = FALSE /\ ls_pc = "off"

\* main has parsed the command line and opened the output
LsInit ==
    /\ ls_op \in {"reverse", "operations"}
    /\ ls_show \in BOOLEAN
    /\ ls_length \in (0 .. MaxListLength) \cup {MAX_LIST_LENGTH + 1}
    /\ ls_mem = [addr \in 1 .. 2 * MaxListLength |-> [data |-> "?", next |-> NULL_PTR]]
    /\ ls_live = {}
    /\ ls_frees = [addr \in 1 .. 2 * MaxListLength |-> 0]
    /\ ls_orig = {}
    /\ ls_head = NULL_PTR /\ ls_copy = NULL_PTR
    /\ ls_cur = NULL_PTR /\ ls_prev = NULL_PTR /\ ls_new = NULL_PTR
    /\ ls_i = 0
    /\ ls_line = << >>
    /\ ls_out = << >>
    /\ ls_stale = FALSE
    /\ ls_pc = "start"

lsConfig == << ls_op, ls_show, ls_length >>
lsHeap == << ls_mem, ls_live, ls_frees, ls_orig, ls_stale >>
lsPrinted == << ls_line, ls_out >>

KeepsOriginal == ls_op = "operations" /\ ls_show

\* the list length is out of range: print_error and return 1
LsReject ==
    /\ ls_pc = "start"
    /\ ls_length < 1 \/ ls_length > MAX_LIST_LENGTH
    /\ std_err' = Append(std_err, "List length must be between 1 and 26")
    /\ exit_status' = 1
    /\ ls_pc' = "done"
    /\ UNCHANGED << lsConfig, lsHeap, ls_head, ls_copy, ls_cur, ls_prev, ls_new, ls_i,
                    lsPrinted >>
    /\ UNCHANGED notLs

\* create_list: head = malloc(...); current = head
LsCreateBegin ==
    /\ ls_pc = "start"
    /\ ~ (ls_length < 1 \/ ls_length > MAX_LIST_LENGTH)
    /\ ls_head' = malloc_node
    /\ ls_cur' = malloc_node
    /\ ls_live' = ls_live \cup {malloc_node}
    /\ ls_orig' = ls_orig \cup {malloc_node}
    /\ ls_i' = 0
    /\ ls_pc' = "create_list"
    /\ UNCHANGED << lsConfig, ls_mem, ls_frees, ls_stale, ls_copy, ls_prev, ls_new,
                    lsPrinted >>
    /\ UNCHANGED << notLs, osVars >>

\* one pass of the loop of create_list
LsCreateStep ==
    /\ ls_pc = "create_list"
    /\ ls_i < ls_length
    /\ ls_stale' = (ls_stale \/ Stale(ls_cur))
    /\ IF ls_i < ls_length - 1
       THEN /\ ls_mem' = [ls_mem EXCEPT ![ls_cur] =
                             [data |-> UpperLetters[ls_i + 1], next |-> malloc_node]]
            /\ ls_live' = ls_live \cup {malloc_node}
            /\ ls_orig' = ls_orig \cup {malloc_node}
            /\ ls_cur' = malloc_node
       ELSE /\ ls_mem' = [ls_mem EXCEPT ![ls_cur] =
                             [data |-> UpperLetters[ls_i + 1], next |-> NULL_PTR]]
            /\ UNCHANGED << ls_live, ls_orig, ls_cur >>
    /\ ls_i' = ls_i + 1
    /\ UNCHANGED << lsConfig, ls_frees, ls_head, ls_copy, ls_prev, ls_new, lsPrinted, ls_pc >>
    /\ UNCHANGED << notLs, osVars >>

\* create_list returns head; main prints the original list
LsCreateEnd ==
    /\ ls_pc = "create_list"
    /\ ~ (ls_i < ls_length)
    /\ ls_cur' = ls_head
    /\ ls_line' = << >>
    /\ ls_pc' = "print_original"
    /\ UNCHANGED << lsConfig, lsHeap, ls_head, ls_copy, ls_prev, ls_new, ls_i, ls_out >>
    /\ UNCHANGED << notLs, osVars >>

LsPrinting == ls_pc \in {"print_original", "print_reversed", "print_copy"}

\* one pass of the loop of print_list
LsPrintStep ==
    /\ LsPrinting
    /\ ls_cur # NULL_PTR
    /\ ls_stale' = (ls_stale \/ Stale(ls_cur))
    /\ ls_line' = IF ls_mem[ls_cur].next # NULL_PTR
                  THEN ls_line \o << ls_mem[ls_cur].data, "->" >>
                  ELSE Append(ls_line, ls_mem[ls_cur].data)
    /\ ls_cur' = ls_mem[ls_cur].next
    /\ UNCHANGED << lsConfig, ls_mem, ls_live, ls_frees, ls_orig, ls_head, ls_copy,
                    ls_prev, ls_new, ls_i, ls_out, ls_pc >>
    /\ UNCHANGED << notLs, osVars >>

\* print_list ends the line and returns to main
LsPrintEnd ==
    /\ LsPrinting
    /\ ls_cur = NULL_PTR
    /\ ls_out' = Append(ls_out, Append(ls_line, "->NIL"))
    /\ ls_line' = << >>
    /\ ls_pc' = CASE ls_pc = "print_original" -> "printed_original"
                  [] ls_pc = "print_reversed" -> "free_list"
                  [] ls_pc = "print_copy" -> "free_copy"
    /\ ls_cur' = CASE ls_pc = "print_original" -> ls_cur
                   [] ls_pc = "print_reversed" -> ls_head
                   [] ls_pc = "print_copy" -> ls_copy
    /\ UNCHANGED << lsConfig, lsHeap, ls_head, ls_copy, ls_prev, ls_new, ls_i >>
    /\ UNCHANGED << notLs, osVars >>

\* copy_list: new_head = malloc(...); head is not NULL here
LsCopyBegin ==
    /\ ls_pc = "printed_original"
    /\ KeepsOriginal
    /\ ls_live' = ls_live \cup {malloc_node}
    /\ ls_copy' = NewHead(malloc_node, ls_head)
    /\ ls_new' = NewHead(malloc_node, ls_head)
    /\ ls_cur' = ls_head
    /\ ls_pc' = "copy_list"
    /\ UNCHANGED << lsConfig, ls_mem, ls_frees, ls_orig, ls_stale, ls_head, ls_prev, ls_i,
                    lsPrinted >>
    /\ UNCHANGED << notLs, osVars >>

\* one pass of the loop of copy_list
LsCopyStep ==
    /\ ls_pc = "copy_list"
    /\ ls_cur # NULL_PTR
    /\ ls_stale' = (ls_stale \/ Stale(ls_cur) \/ Stale(ls_new))
    /\ IF ls_mem[ls_cur].next # NULL_PTR
       THEN /\ ls_mem' = [ls_mem EXCEPT ![ls_new] =
                             [data |-> ls_mem[ls_cur].data, next |-> malloc_node]]
            /\ ls_live' = ls_live \cup {malloc_node}
            /\ ls_new' = malloc_node
       ELSE /\ ls_mem' = [ls_mem EXCEPT ![ls_new] =
                             [data |-> ls_mem[ls_cur].data, next |-> NULL_PTR]]
            /\ UNCHANGED << ls_live, ls_new >>
    /\ ls_cur' = ls_mem'[ls_cur].next
    /\ UNCHANGED << lsConfig, ls_frees, ls_orig, ls_head, ls_copy, ls_prev, ls_i,
                    lsPrinted, ls_pc >>
    /\ UNCHANGED << notLs, osVars >>

\* copy_list returns new_head
LsCopyEnd ==
    /\ ls_pc = "copy_list"
    /\ ls_cur = NULL_PTR
    /\ ls_pc' = "copied"
    /\ UNCHANGED << lsConfig, lsHeap, ls_head, ls_copy, ls_cur, ls_prev, ls_new, ls_i,
                    lsPrinted >>
    /\ UNCHANGED << notLs, osVars >>

\* reverse_list(&head): prev = NULL; current = *head
LsReverseBegin ==
    /\ \/ ls_pc = "copied"
       \/ ls_pc = "printed_original" /\ ~ KeepsOriginal
    /\ ls_prev' = NULL_PTR
    /\ ls_cur' = ls_head
    /\ ls_pc' = "reverse_list"
    /\ UNCHANGED << lsConfig, lsHeap, ls_head, ls_copy, ls_new, ls_i, lsPrinted >>
    /\ UNCHANGED << notLs, osVars >>

\* one pass of the loop of reverse_list
LsReverseStep ==
    /\ ls_pc = "reverse_list"
    /\ ls_cur # NULL_PTR
    /\ ls_stale' = (ls_stale \/ Stale(ls_cur))
    /\ ls_mem' = [ls_mem EXCEPT ![ls_cur].next = ls_prev]
    /\ ls_prev' = ls_cur
    /\ ls_cur' = ls_mem[ls_cur].next
    /\ UNCHANGED << lsConfig, ls_live, ls_frees, ls_orig, ls_head, ls_copy, ls_new, ls_i,
                    lsPrinted, ls_pc >>
    /\ UNCHANGED << notLs, osVars >>

\* *head = prev; main prints the reversed list
LsReverseEnd ==
    /\ ls_pc = "reverse_list"
    /\ ls_cur = NULL_PTR
    /\ ls_head' = ls_prev
    /\ ls_cur' = ls_prev
    /\ ls_line' = << >>
    /\ ls_pc' = "print_reversed"
    /\ UNCHANGED << lsConfig, lsHeap, ls_copy, ls_prev, ls_new, ls_i, ls_out >>
    /\ UNCHANGED << notLs, osVars >>

\* one pass of the loop of free_list
LsFreeStep ==
    /\ ls_pc \in {"free_list", "free_copy"}
    /\ ls_cur # NULL_PTR
    /\ ls_stale' = (ls_stale \/ Stale(ls_cur))
    /\ ls_frees' = [ls_frees EXCEPT ![ls_cur] = @ + 1]
    /\ ls_live' = ls_live \ {ls_cur}
    /\ ls_cur' = ls_mem[ls_cur].next
    /\ UNCHANGED << lsConfig, ls_mem, ls_orig, ls_head, ls_copy, ls_prev, ls_new, ls_i,
                    lsPrinted, ls_pc >>
    /\ UNCHANGED << notLs, osVars >>

\* free_list(head) has returned and the copy is still to be printed
LsPrintCopy ==
    /\ ls_pc = "free_list"
    /\ ls_cur = NULL_PTR
    /\ KeepsOriginal
    /\ ls_cur' = ls_copy
    /\ ls_line' = << >>
    /\ ls_pc' = "print_copy"
    /\ UNCHANGED << lsConfig, lsHeap, ls_head, ls_copy, ls_prev, ls_new, ls_i, ls_out >>
    /\ UNCHANGED << notLs, osVars >>

\* the last free_list has returned; main returns 0
LsExit ==
    /\ ls_cur = NULL_PTR
    /\ \/ ls_pc = "free_copy"
       \/ ls_pc = "free_list" /\ ~ KeepsOriginal
    /\ ls_pc' = "done"
    /\ exit_status' = 0
    /\ UNCHANGED << lsConfig, lsHeap, ls_head, ls_copy, ls_cur, ls_prev, ls_new, ls_i,
                    lsPrinted >>
    /\ UNCHANGED << notLs, std_err >>

LsNext ==
    \/ LsReject
    \/ LsCreateBegin
    \/ LsCreateStep
    \/ LsCreateEnd
    \/ LsPrintStep
    \/ LsPrintEnd
    \/ LsCopyBegin
    \/ LsCopyStep
    \/ LsCopyEnd
    \/ LsReverseBegin
    \/ LsReverseStep
    \/ LsReverseEnd
    \/ LsFreeStep
    \/ LsPrintCopy
    \/ LsExit

(***************************************************************************)
(* tasks-02/task-06: the Caesar cipher                                     *)
(***************************************************************************)
\* characters are their codes
UPPER_A == 65
LOWER_A == 97
ALPHABET == 26
DEFAULT_SHIFT == 13

isupper(c) == c >= UPPER_A /\ c < UPPER_A + ALPHABET
islower(c) == c >= LOWER_A /\ c < LOWER_A + ALPHABET
isalpha(c) == isupper(c) \/ islower(c)

\* a % b in C: the quotient is truncated towards zero
Remainder(a, b) == IF a >= 0 THEN a % b ELSE - ((- a) % b)

\* the characters the texts are made of: A, Z, a, z, a digit and a space
CsChars == {UPPER_A, UPPER_A + 25, LOWER_A, LOWER_A + 25, 53, 32}

RECURSIVE TextsUpTo(_, _)
TextsUpTo(chars, n) ==
    IF n = 0 THEN {<< >>}
    ELSE TextsUpTo(chars, n - 1)
         \cup {Append(text, c) : text \in TextsUpTo(chars, n - 1), c \in chars}

\* what the pass of the loop of caesar_cipher stores in str[i]
caesar_char(c, shift) ==
    IF isalpha(c)
    THEN LET base == IF isupper(c) THEN UPPER_A ELSE LOWER_A
         IN  Remainder(c - base + shift + ALPHABET, ALPHABET) + base
    ELSE c

CsOff == cs_text = << >> /\ cs_str = << >> /\ cs_shift = 0 /\ cs_i = 0 /\ cs_pc = "off"

\* the text was read and --caesar N --decode-caesar N parsed (13 when no
\* number follows); caesar_cipher(input, shift, false) begins
CsInit ==
    /\ cs_text \in TextsUpTo(CsChars, MaxTextLen)
    /\ cs_str = cs_text
    /\ cs_shift \in {DEFAULT_SHIFT} \cup (0 .. MaxShift)
    /\ cs_i = 0
    /\ cs_pc = "encode"

\* if (decode) shift = -shift;
CsShift == IF cs_pc = "decode" THEN - cs_shift ELSE cs_shift

\* one pass of the loop of caesar_cipher
CsStep ==
    /\ cs_pc \in {"encode", "decode"}
    /\ cs_i < Len(cs_str)
    /\ cs_str' = [cs_str EXCEPT ![cs_i + 1] = caesar_char(@, CsShift)]
    /\ cs_i' = cs_i + 1
    /\ UNCHANGED << cs_text, cs_shift, cs_pc >>
    /\ UNCHANGED << notCs, osVars >>

\* caesar_cipher(input, shift, false) returns and
\* caesar_cipher(input, shift, true) begins
CsEncoded ==
    /\ cs_pc = "encode"
    /\ cs_i = Len(cs_str)
    /\ cs_i' = 0
    /\ cs_pc' = "decode"
    /\ UNCHANGED << cs_text, cs_str, cs_shift >>
    /\ UNCHANGED << notCs, osVars >>

\* caesar_cipher(input, shift, true) returns; the text is printed
CsDecoded ==
    /\ cs_pc = "decode"
    /\ cs_i = Len(cs_str)
    /\ cs_pc' = "done"
    /\ exit_status' = 0
    /\ UNCHANGED << cs_text, cs_str, cs_shift, cs_i >>
    /\ UNCHANGED << notCs, std_err >>

CsNext == CsStep \/ CsEncoded \/ CsDecoded

(***************************************************************************)
(* tasks-02/task-06: Morse code                                            *)
(***************************************************************************)
MAX_INPUT_LEN == 4096
MORSE_CODE_SIZE == 36
SPACE == 32
SLASH == 47
DOT == 46
DASH == 45
DIGIT_0 == 48

morse_code_table ==
    << << DOT, DASH >>,
       << DASH, DOT, DOT, DOT >>,
       << DASH, DOT, DASH, DOT >>,
       << DASH, DOT, DOT >>,
       << DOT >>,
       << DOT, DOT, DASH, DOT >>,
       << DASH, DASH, DOT >>,
       << DOT, DOT, DOT, DOT >>,
       << DOT, DOT >>,
       << DOT, DASH, DASH, DASH >>,
       << DASH, DOT, DASH >>,
       << DOT, DASH, DOT, DOT >>,
       << DASH, DASH >>,
       << DASH, DOT >>,
       << DASH, DASH, DASH >>,
       << DOT, DASH, DASH, DOT >>,
       << DASH, DASH, DOT, DASH >>,
       << DOT, DASH, DOT >>,
       << DOT, DOT, DOT >>,
       << DASH >>,
       << DOT, DOT, DASH >>,
       << DOT, DOT, DOT, DASH >>,
       << DOT, DASH, DASH >>,
       << DASH, DOT, DOT, DASH >>,
       << DASH, DOT, DASH, DASH >>,
       << DASH, DASH, DOT, DOT >>,
       << DASH, DASH, DASH, DASH, DASH >>,
       << DOT, DASH, DASH, DASH, DASH >>,
       << DOT, DOT, DASH, DASH, DASH >>,
       << DOT, DOT, DOT, DASH, DASH >>,
       << DOT, DOT, DOT, DOT, DASH >>,
       << DOT, DOT, DOT, DOT, DOT >>,
       << DASH, DOT, DOT, DOT, DOT >>,
       << DASH, DASH, DOT, DOT, DOT >>,
       << DASH, DASH, DASH, DOT, DOT >>,
       << DASH, DASH, DASH, DASH, DOT >> >>

morse_chars ==
    [k \in 1 .. MORSE_CODE_SIZE |->
        IF k <= ALPHABET THEN UPPER_A + (k - 1) ELSE DIGIT_0 + (k - 1 - ALPHABET)]

isdigit(c) == c >= DIGIT_0 /\ c < DIGIT_0 + 10
isalnum(c) == isalpha(c) \/ isdigit(c)
toupper(c) == IF islower(c) THEN c - LOWER_A + UPPER_A ELSE c

\* what one pass of the loop of text_to_morse appends to result for str[i]
morse_of(ch) ==
    LET c == toupper(ch)
    IN  IF c = SPACE THEN << SLASH, SPACE >>
        ELSE IF isalnum(c)
        THEN LET index == IF isalpha(c) THEN c - UPPER_A ELSE ALPHABET + (c - DIGIT_0)
             IN  Append(morse_code_table[index + 1], SPACE)
        ELSE << >>

\* a lookup that finds no entry
no_match(morse) == 0

\* find_char_morse: the character of the first table entry equal to morse,
\* or 0
find_char_morse(morse) ==
    IF \E k \in 1 .. MORSE_CODE_SIZE : morse_code_table[k] = morse
    THEN morse_chars[CHOOSE k \in 1 .. MORSE_CODE_SIZE :
                        /\ morse_code_table[k] = morse
                        /\ \A j \in 1 .. k - 1 : morse_code_table[j] # morse]
    ELSE 0

\* strtok(.., " "): the first and the last position of the next token of str
\* after position from, or 0 when there is none
TokenFirst(str, from) ==
    IF \E p \in from + 1 .. Len(str) : str[p] # SPACE
    THEN CHOOSE p \in from + 1 .. Len(str) :
            str[p] # SPACE /\ \A q \in from + 1 .. p - 1 : str[q] = SPACE
    ELSE 0
TokenLast(str, first) ==
    CHOOSE p \in first .. Len(str) :
        /\ \A q \in first .. p : str[q] # SPACE
        /\ p = Len(str) \/ str[p + 1] = SPACE

\* the characters the short lines are made of
MoChars == {UPPER_A, LOWER_A + 25, DIGIT_0, DIGIT_0 + 9, SPACE}

\* the lines read: short ones, each character of the table by itself, and
\* long lines of one digit
MoLines ==
    TextsUpTo(MoChars, MaxTextLen)
    \cup {<< morse_chars[k] >> : k \in 1 .. MORSE_CODE_SIZE}
    \cup {[p \in 1 .. n |-> DIGIT_0 + 7] : n \in {MaxLineLen - 1, MaxLineLen}}

MoOff ==
    /\ mo_text = << >> /\ mo_str = << >> /\ mo_result = << >> /\ mo_i = 0
    /\ mo_overrun = FALSE /\ mo_pc = "off"

\* fgets has read the line into the buffer and the newline was removed;
\* --morse and --decode-morse are set; text_to_morse begins
MoInit ==
    /\ mo_text \in MoLines
    /\ mo_str = mo_text
    /\ mo_result = << >>
    /\ mo_i = 0
    /\ mo_overrun = FALSE
    /\ mo_pc = "text_to_morse"

\* one pass of the loop of text_to_morse
MoEncodeStep ==
    /\ mo_pc = "text_to_morse"
    /\ mo_i < Len(mo_str)
    /\ mo_result' = mo_result \o morse_of(mo_str[mo_i + 1])
    /\ mo_i' = mo_i + 1
    /\ UNCHANGED << mo_text, mo_str, mo_overrun, mo_pc >>
    /\ UNCHANGED << notMo, osVars >>

\* strcpy(str, result) writes the characters of result and a terminator
Fits(result) == Len(result) + 1 <= MAX_INPUT_LEN

\* the end of text_to_morse: strcpy(str, result); morse_to_text begins
MoCopyBack ==
    /\ mo_pc = "text_to_morse"
    /\ mo_i = Len(mo_str)
    /\ Fits(mo_result)
    /\ mo_str' = mo_result
    /\ mo_result' = << >>
    /\ mo_i' = 0
    /\ mo_pc' = "morse_to_text"
    /\ UNCHANGED << mo_text, mo_overrun >>
    /\ UNCHANGED << notMo, osVars >>

\* the end of text_to_morse, with a result longer than the buffer: strcpy
\* writes past its end and what the program does from here on is undefined
MoOverrun ==
    /\ mo_pc = "text_to_morse"
    /\ mo_i = Len(mo_str)
    /\ ~ Fits(mo_result)
    /\ mo_overrun' = TRUE
    /\ mo_pc' = "overrun"
    /\ UNCHANGED << mo_text, mo_str, mo_result, mo_i >>
    /\ UNCHANGED << notMo, osVars >>

\* one pass of the loop of morse_to_text, for the next token
MoDecodeStep ==
    /\ mo_pc = "morse_to_text"
    /\ TokenFirst(mo_str, mo_i) # 0
    /\ LET first == TokenFirst(mo_str, mo_i)
           last == TokenLast(mo_str, first)
           token == SubSeq(mo_str, first, last)
       IN  /\ mo_result' = IF token = << SLASH >> THEN Append(mo_result, SPACE)
                           ELSE IF find_char_morse(token) # 0
                           THEN Append(mo_result, find_char_morse(token))
                           ELSE mo_result
           /\ mo_i' = IF last < Len(mo_str) THEN last + 1 ELSE last
    /\ UNCHANGED << mo_text, mo_str, mo_overrun, mo_pc >>
    /\ UNCHANGED << notMo, osVars >>

\* strtok returns NULL: strcpy(str, result), and the text is printed
MoDecoded ==
    /\ mo_pc = "morse_to_text"
    /\ TokenFirst(mo_str, mo_i) = 0
    /\ mo_str' = mo_result
    /\ mo_pc' = "done"
    /\ exit_status' = 0
    /\ UNCHANGED << mo_text, mo_result, mo_i, mo_overrun >>
    /\ UNCHANGED << notMo, std_err >>

MoNext == MoEncodeStep \/ MoCopyBack \/ MoOverrun \/ MoDecodeStep \/ MoDecoded

(***************************************************************************)
(* tasks-01/task-01: validate_and_process                                  *)
(***************************************************************************)
\* a year that is a multiple of four taken for a leap year
leap_every_fourth(date) == date.year % 4 = 0

Date_is_leap_year(date) ==
    LET year == date.year
    IN  IF year % 400 = 0 THEN TRUE
        ELSE IF year % 100 = 0 THEN FALSE
        ELSE IF year % 4 = 0 THEN TRUE
        ELSE FALSE

\* is_out_of_range: the error it prints, or none when it returns true
range_error(date) ==
    IF date.year < 1 THEN << "Year must be positive" >>
    ELSE IF date.month < 1 \/ date.month > 12 THEN << "Month must be 1-12" >>
    ELSE IF date.day < 1 \/ date.day > 31 THEN << "Day must be 1-31" >>
    ELSE << >>

\* is_gregorian: the error it prints, or none when it returns true
gregorian_error(date) ==
    IF date.month \in {4, 6, 9, 11}
    THEN IF date.day > 30 THEN << "This month has maximum 30 days" >> ELSE << >>
    ELSE IF date.month = 2
    THEN IF Date_is_leap_year(date)
         THEN IF date.day > 29 THEN << "February has 29 days in a leap year" >> ELSE << >>
         ELSE IF date.day > 28 THEN << "February has 28 days in a not leap year" >>
              ELSE << >>
    ELSE << >>

\* is_out_of_range(date) && is_gregorian(date): what is printed on stderr
validity_errors(date) ==
    IF range_error(date) # << >> THEN range_error(date) ELSE gregorian_error(date)

Date_is_valid(date) == validity_errors(date) = << >>

\* the years tried: not positive, common, leap, and centuries of both kinds
DtYears == {-4, 0, 1, 4, 100, 400, 1900, 2000, 2023, 2024}

DtOff ==
    /\ dt_date = << >> /\ dt_flags = {} /\ dt_valid = FALSE /\ dt_out = << >> /\ dt_pc = "off"

\* the command line or the prompt has given a date; validate_and_process begins
DtInit ==
    /\ dt_date \in [year : DtYears, month : 0 .. MaxMonth, day : 0 .. MaxDay]
    /\ dt_flags \in SUBSET {"day_of_year", "day_of_week", "date_diff"}
    /\ dt_valid = FALSE
    /\ dt_out = << >>
    /\ dt_pc = "validate"

\* if (!Date_is_valid(&flags->date)): the call
DtValidate ==
    /\ dt_pc = "validate"
    /\ dt_valid' = Date_is_valid(dt_date)
    /\ std_err' = std_err \o validity_errors(dt_date)
    /\ dt_pc' = "validated"
    /\ UNCHANGED << dt_date, dt_flags, dt_out >>
    /\ UNCHANGED << notDt, exit_status >>

\* Date_print_error("Invalid date"); exit(EXIT_FAILURE);
DtReject ==
    /\ dt_pc = "validated"
    /\ ~ dt_valid
    /\ std_err' = Append(std_err, "Invalid date")
    /\ exit_status' = 1
    /\ dt_pc' = "done"
    /\ UNCHANGED << dt_date, dt_flags, dt_valid, dt_out >>
    /\ UNCHANGED notDt

\* the date is valid: the results asked for are printed, or "Date is valid"
DtProcess ==
    /\ dt_pc = "validated"
    /\ dt_valid
    /\ dt_out' = (IF "day_of_year" \in dt_flags THEN << "day of year" >> ELSE << >>)
                 \o (IF "day_of_week" \in dt_flags THEN << "day of week" >> ELSE << >>)
                 \o (IF "date_diff" \in dt_flags THEN << "difference" >> ELSE << >>)
                 \o (IF dt_flags = {} THEN << "Date is valid" >> ELSE << >>)
    /\ dt_pc' = "processed"
    /\ UNCHANGED << dt_date, dt_flags, dt_valid >>
    /\ UNCHANGED << notDt, osVars >>

\* validate_and_process returns and main returns 0
DtExit ==
    /\ dt_pc = "processed"
    /\ exit_status' = 0
    /\ dt_pc' = "done"
    /\ UNCHANGED << dt_date, dt_flags, dt_valid, dt_out >>
    /\ UNCHANGED << notDt, std_err >>

DtNext == DtValidate \/ DtReject \/ DtProcess \/ DtExit

(***************************************************************************)
(* tasks-02/task-13-15: the command line of the number operations          *)
(***************************************************************************)
\* Config as the compiler lays it out, in words of 32 bits: long long and
\* pointers of 8 bytes are kept at multiples of 8 (or 4), int at multiples
\* of 4; a bool is one byte, followed by three bytes of padding.
W_LIMIT == 0
W_HELP == 2
W_THREADS == 3
W_SUM_TARGET == 4
W_REVERSE_FLAG == 5
W_REVERSE_NUM == 6
W_ROW_SIZE == 8
W_NUM_WIDTH == 9
\* the word after config, which belongs to something else
W_BEYOND == 10

MAX_THREADS == 16
DEFAULT_ROW == 10
DEFAULT_WIDTH == 8
DEFAULT_SUM_TARGET == 25

\* A word is kept as the int it holds.  The numbers tried lie within 32
\* bits, so the low word of a 64-bit value is the value and the high word is
\* its sign: 0, or -1 (all bits set).
LowWord(value) == value
HighWord(value) == IF value < 0 THEN -1 ELSE 0

\* *value = num with value a long long * that points at word w: eight bytes
\* are written, the word at w and the word after it
store_long_long(mem, w, num, order) ==
    IF order = "little"
    THEN [mem EXCEPT ![w] = LowWord(num), ![w + 1] = HighWord(num)]
    ELSE [mem EXCEPT ![w] = HighWord(num), ![w + 1] = LowWord(num)]

\* an assignment to an int field: four bytes are written
store_int(mem, w, num, order) == [mem EXCEPT ![w] = LowWord(num)]

\* the byte of a bool within its word, and the word with that byte set to 1
BoolByte(word, order) ==
    IF order = "little" THEN word % 256 ELSE (word \div 16777216) % 256
SetBool(word, order) ==
    IF order = "little" THEN word - (word % 256) + 1
    ELSE (word % 16777216) + 16777216

\* strtoll(str, &endptr, 10) and the test of endptr: a sign, then digits up
\* to the end of the string
parse_long_long(str) ==
    LET start == IF str # << >> /\ str[1] \in {"-", "+"} THEN 2 ELSE 1
        end == digits_end(str, start)
    IN  IF end = start \/ end <= Len(str)
        THEN [ok |-> FALSE, num |-> 0]
        ELSE [ok |-> TRUE, num |-> atoi(str)]

NcOptions == {"-t", "-s", "--row", "-w", "-r"}
NcValues == {<< "7" >>, << "-", "1" >>, << "7", "x" >>}

RECURSIVE NcCommandLines(_)
NcCommandLines(n) ==
    IF n = 0 THEN {<< >>}
    ELSE NcCommandLines(n - 1)
         \cup {Append(line, [option |-> o, value |-> v]) :
                  line \in NcCommandLines(n - 1), o \in NcOptions, v \in NcValues}

NcOff == nc_args = << >> /\ nc_i = 0 /\ nc_mem = << >> /\ nc_order = "none" /\ nc_pc = "off"

\* main has initialised config; the word after it holds whatever it holds
NcInit ==
    /\ nc_args \in NcCommandLines(MaxOptions)
    /\ nc_i = 0
    /\ nc_order \in {"little", "big"}
    /\ \E beyond \in {0, 1} :
          nc_mem = [w \in 0 .. W_BEYOND |->
                       CASE w = W_THREADS -> 1
                         [] w = W_SUM_TARGET -> DEFAULT_SUM_TARGET
                         [] w = W_ROW_SIZE -> DEFAULT_ROW
                         [] w = W_NUM_WIDTH -> DEFAULT_WIDTH
                         [] w = W_BEYOND -> beyond
                         [] OTHER -> 0]
    /\ nc_pc = "parse_args"

NcArg == nc_args[nc_i + 1]
NcParsing(options) ==
    /\ nc_pc = "parse_args"
    /\ nc_i < Len(nc_args)
    /\ NcArg.option \in options

\* an int option whose argument is a number: parse_long_long stores it
\* through the pointer to the field
NcStore(w) ==
    /\ parse_long_long(NcArg.value).ok
    /\ nc_mem' = store_long_long(nc_mem, w, parse_long_long(NcArg.value).num, nc_order)

\* -s, --sum N
NcSum ==
    /\ NcParsing({"-s"})
    /\ NcStore(W_SUM_TARGET)
    /\ nc_i' = nc_i + 1
    /\ UNCHANGED << nc_args, nc_order, nc_pc >>
    /\ UNCHANGED << notNc, osVars >>

\* --row N
NcRow ==
    /\ NcParsing({"--row"})
    /\ NcStore(W_ROW_SIZE)
    /\ nc_i' = nc_i + 1
    /\ UNCHANGED << nc_args, nc_order, nc_pc >>
    /\ UNCHANGED << notNc, osVars >>

\* -w, --width N
NcWidth ==
    /\ NcParsing({"-w"})
    /\ NcStore(W_NUM_WIDTH)
    /\ nc_i' = nc_i + 1
    /\ UNCHANGED << nc_args, nc_order, nc_pc >>
    /\ UNCHANGED << notNc, osVars >>

\* -t, --threads N: the number is stored, then tested against 1..MAX_THREADS
NcThreads ==
    /\ NcParsing({"-t"})
    /\ NcStore(W_THREADS)
    /\ IF nc_mem'[W_THREADS] < 1 \/ nc_mem'[W_THREADS] > MAX_THREADS
       THEN /\ std_err' = Append(std_err, "Thread count must be between 1 and MAX_THREADS")
            /\ exit_status' = 1
            /\ nc_pc' = "exit"
            /\ UNCHANGED nc_i
       ELSE /\ nc_i' = nc_i + 1
            /\ UNCHANGED << nc_pc, osVars >>
    /\ UNCHANGED << nc_args, nc_order >>
    /\ UNCHANGED notNc

\* -r, --reverse [N]: the flag is set; a number after it is stored in
\* reverse_num, anything else is left to the next pass, which ignores it
NcReverse ==
    /\ NcParsing({"-r"})
    /\ LET flagged == [nc_mem EXCEPT ![W_REVERSE_FLAG] = SetBool(@, nc_order)]
       IN  nc_mem' = IF parse_long_long(NcArg.value).ok
                     THEN store_long_long(flagged, W_REVERSE_NUM,
                                          parse_long_long(NcArg.value).num, nc_order)
                     ELSE flagged
    /\ nc_i' = nc_i + 1
    /\ UNCHANGED << nc_args, nc_order, nc_pc >>
    /\ UNCHANGED << notNc, osVars >>

\* an int option without a number after it: print_error and exit(1)
NcInvalid ==
    /\ NcParsing({"-t", "-s", "--row", "-w"})
    /\ ~ parse_long_long(NcArg.value).ok
    /\ std_err' = Append(std_err, CASE NcArg.option = "-t" ->
                                         "Missing or invalid thread count after -t/--threads"
                                    [] NcArg.option = "-s" ->
                                         "Missing or invalid number after -s/--sum"
                                    [] NcArg.option = "--row" ->
                                         "Missing or invalid number after --row"
                                    [] NcArg.option = "-w" ->
                                         "Missing or invalid number after -w/--width")
    /\ exit_status' = 1
    /\ nc_pc' = "exit"
    /\ UNCHANGED << nc_args, nc_i, nc_mem, nc_order >>
    /\ UNCHANGED notNc

\* the loop of parse_args is over
NcParsed ==
    /\ nc_pc = "parse_args"
    /\ nc_i = Len(nc_args)
    /\ nc_pc' = "parsed"
    /\ UNCHANGED << nc_args, nc_i, nc_mem, nc_order >>
    /\ UNCHANGED << notNc, osVars >>

NcNext == NcSum \/ NcRow \/ NcWidth \/ NcThreads \/ NcReverse \/ NcInvalid \/ NcParsed

(***************************************************************************)
(* tasks-02/task-11-12: the single pyramid                                 *)
(***************************************************************************)
COLOR_RESET == << "ESC", "[", "0", "m" >>
COLOR_RED == << "ESC", "[", "3", "1", "m" >>
COLOR_BLUE == << "ESC", "[", "3", "4", "m" >>

\* (green, yellow, magenta, cyan and white are as red and blue)
get_color_code(color_name) ==
    IF color_name = "red" THEN COLOR_RED
    ELSE IF color_name = "blue" THEN COLOR_BLUE
    ELSE COLOR_RESET

\* a get_symbol that stays on the first symbol
first_symbol(symbols, symbols_length, index) ==
    IF symbols_length = 0 THEN " " ELSE symbols[1]

\* get_symbol with random false
get_symbol(symbols, symbols_length, index) ==
    IF symbols_length = 0 THEN " "
    ELSE symbols[(index % symbols_length) + 1]

\* the characters of row i: the spaces, the colour code, the symbols, the reset
row_text(config, i) ==
    LET spaces == config.rows - i - 1
        symbols == 2 * i + 1
    IN  [s \in 1 .. spaces |-> " "]
        \o (IF config.use_color THEN get_color_code(config.color) ELSE << >>)
        \o [j \in 1 .. symbols |->
               get_symbol(config.symbols, Len(config.symbols), j - 1)]
        \o (IF config.use_color THEN COLOR_RESET ELSE << >>)

\* int max_row_length = 2 * config->rows + 10;
max_row_length(config) == 2 * config.rows + 10

SpOff ==
    /\ sp_config = << >> /\ sp_rows = << >> /\ sp_filled = {} /\ sp_overrun = FALSE
    /\ sp_i = 0 /\ sp_out = << >> /\ sp_pc = "off"

\* parse_args has filled config; help is not asked for and random is off
SpInit ==
    /\ sp_config \in [rows : (0 .. MaxPyramidRows) \cup {MAX_ROWS + 1},
                      symbols : {<< >>, << "A" >>, << "A", "B" >>, << "x", "y", "z" >>},
                      use_color : BOOLEAN,
                      color : {"red", "blue", "teal"},
                      threads : 0 .. MaxPyramidThreads]
    /\ sp_rows = << >>
    /\ sp_filled = {}
    /\ sp_overrun = FALSE
    /\ sp_i = 0
    /\ sp_out = << >>
    /\ sp_pc = "main"

\* the number of rows is out of range: print_error and return 1
SpReject ==
    /\ sp_pc = "main"
    /\ sp_config.rows < 1 \/ sp_config.rows > MAX_ROWS
    /\ std_err' = Append(std_err, "Number of rows must be between 1 and 300")
    /\ exit_status' = 1
    /\ sp_pc' = "exit"
    /\ UNCHANGED << sp_config, sp_rows, sp_filled, sp_overrun, sp_i, sp_out >>
    /\ UNCHANGED notSp

\* main calls print_pyramid or, with more than one thread,
\* print_pyramid_parallel, which allocates rows
SpBegin ==
    /\ sp_pc = "main"
    /\ ~ (sp_config.rows < 1 \/ sp_config.rows > MAX_ROWS)
    /\ sp_pc' = IF sp_config.threads > 1 THEN "fill" ELSE "print_pyramid"
    /\ sp_rows' = IF sp_config.threads > 1
                  THEN [i \in 0 .. sp_config.rows - 1 |-> << >>]
                  ELSE sp_rows
    /\ sp_i' = 0
    /\ UNCHANGED << sp_config, sp_filled, sp_overrun, sp_out >>
    /\ UNCHANGED << notSp, osVars >>

\* one pass of the loop of print_pyramid: a row is printed
SpPrintRow ==
    /\ sp_pc = "print_pyramid"
    /\ sp_i < sp_config.rows
    /\ sp_out' = Append(sp_out, row_text(sp_config, sp_i))
    /\ sp_i' = sp_i + 1
    /\ UNCHANGED << sp_config, sp_rows, sp_filled, sp_overrun, sp_pc >>
    /\ UNCHANGED << notSp, osVars >>

\* iteration i of the parallel loop, run by whichever thread it falls to:
\* rows[i] is allocated and written, with a terminator after the text
SpFillRow(i) ==
    /\ sp_pc = "fill"
    /\ i \in 0 .. sp_config.rows - 1
    /\ i \notin sp_filled
    /\ sp_rows' = [sp_rows EXCEPT ![i] = row_text(sp_config, i)]
    /\ sp_overrun' = (sp_overrun \/ Len(row_text(sp_config, i)) + 1 > max_row_length(sp_config))
    /\ sp_filled' = sp_filled \cup {i}
    /\ UNCHANGED << sp_config, sp_i, sp_out, sp_pc >>
    /\ UNCHANGED << notSp, osVars >>

\* every iteration has run: the threads join
SpJoin ==
    /\ sp_pc = "fill"
    /\ sp_filled = 0 .. sp_config.rows - 1
    /\ sp_i' = 0
    /\ sp_pc' = "print"
    /\ UNCHANGED << sp_config, sp_rows, sp_filled, sp_overrun, sp_out >>
    /\ UNCHANGED << notSp, osVars >>

\* one pass of the loop that prints rows[i] and frees it
SpPrintBuffer ==
    /\ sp_pc = "print"
    /\ sp_i < sp_config.rows
    /\ sp_out' = Append(sp_out, sp_rows[sp_i])
    /\ sp_i' = sp_i + 1
    /\ UNCHANGED << sp_config, sp_rows, sp_filled, sp_overrun, sp_pc >>
    /\ UNCHANGED << notSp, osVars >>

\* the pyramid is printed; main returns 0
SpExit ==
    /\ sp_pc \in {"print_pyramid", "print"}
    /\ ~ (sp_i < sp_config.rows)
    /\ exit_status' = 0
    /\ sp_pc' = "exit"
    /\ UNCHANGED << sp_config, sp_rows, sp_filled, sp_overrun, sp_i, sp_out >>
    /\ UNCHANGED << notSp, std_err >>

SpNext ==
    \/ SpReject
    \/ SpBegin
    \/ SpPrintRow
    \/ \E i \in 0 .. MaxPyramidRows : SpFillRow(i)
    \/ SpJoin
    \/ SpPrintBuffer
    \/ SpExit

(***************************************************************************)
(* The specifications: one per program                                     *)
(***************************************************************************)

InitArmstrong ==
    ArmInit /\ PrOff /\ SwOff /\ MxOff /\ TcOff /\ MgOff /\ PyOff /\ RdOff /\ DsOff /\ TrOff /\ LsOff /\ CsOff /\ MoOff /\ DtOff /\ NcOff /\ SpOff /\ OsInit
InitPrimes ==
    ArmOff /\ PrInit /\ SwOff /\ MxOff /\ TcOff /\ MgOff /\ PyOff /\ RdOff /\ DsOff /\ TrOff /\ LsOff /\ CsOff /\ MoOff /\ DtOff /\ NcOff /\ SpOff /\ OsInit
InitSwap ==
    ArmOff /\ PrOff /\ SwInit /\ MxOff /\ TcOff /\ MgOff /\ PyOff /\ RdOff /\ DsOff /\ TrOff /\ LsOff /\ CsOff /\ MoOff /\ DtOff /\ NcOff /\ SpOff /\ OsInit
InitMatrix ==
    ArmOff /\ PrOff /\ SwOff /\ MxInit /\ TcOff /\ MgOff /\ PyOff /\ RdOff /\ DsOff /\ TrOff /\ LsOff /\ CsOff /\ MoOff /\ DtOff /\ NcOff /\ SpOff /\ OsInit
InitConverter ==
    ArmOff /\ PrOff /\ SwOff /\ MxOff /\ TcInit /\ MgOff /\ PyOff /\ RdOff /\ DsOff /\ TrOff /\ LsOff /\ CsOff /\ MoOff /\ DtOff /\ NcOff /\ SpOff /\ OsInit
InitMerge ==
    ArmOff /\ PrOff /\ SwOff /\ MxOff /\ TcOff /\ MgInit /\ PyOff /\ RdOff /\ DsOff /\ TrOff /\ LsOff /\ CsOff /\ MoOff /\ DtOff /\ NcOff /\ SpOff /\ OsInit

SpecArmstrong == InitArmstrong /\ [][ArmNext]_vars
SpecPrimes == InitPrimes /\ [][PrNext]_vars
\* the threaded Armstrong search under fair scheduling
InitFairArmstrong == InitArmstrong /\ limit <= MaxFairLimit
FairArmstrong == InitFairArmstrong /\ [][ArmNext]_vars /\ ArmFairness
SpecSwap == InitSwap /\ [][SwNext]_vars
SpecMatrix == InitMatrix /\ [][MxNext]_vars

\* the two searches that flush into a shared array under a lock
InitSearch == InitArmstrong \/ InitPrimes
SearchNext == ArmNext \/ PrNext
SpecSearch == InitSearch /\ [][SearchNext]_vars

SpecMerge == InitMerge /\ [][MgNext]_vars

InitPyramid ==
    ArmOff /\ PrOff /\ SwOff /\ MxOff /\ TcOff /\ MgOff /\ PyInit /\ RdOff /\ DsOff /\ TrOff /\ LsOff /\ CsOff /\ MoOff /\ DtOff /\ NcOff /\ SpOff /\ OsInit
SpecPyramid == InitPyramid /\ [][PyNext]_vars

InitReader ==
    /\ ArmOff /\ PrOff /\ SwOff /\ MxOff /\ TcOff /\ MgOff /\ PyOff /\ RdInit
    /\ DsOff /\ TrOff /\ LsOff /\ CsOff /\ MoOff /\ DtOff /\ NcOff /\ SpOff /\ OsInit
SpecReader == InitReader /\ [][RdNext]_vars

InitDigitSum ==
    /\ ArmOff /\ PrOff /\ SwOff /\ MxOff /\ TcOff /\ MgOff /\ PyOff /\ RdOff
    /\ DsInit /\ TrOff /\ LsOff /\ CsOff /\ MoOff /\ DtOff /\ NcOff /\ SpOff /\ OsInit
SpecDigitSum == InitDigitSum /\ [][DsNext]_vars

InitTree ==
    /\ ArmOff /\ PrOff /\ SwOff /\ MxOff /\ TcOff /\ MgOff /\ PyOff /\ RdOff
    /\ DsOff /\ TrInit /\ LsOff /\ CsOff /\ MoOff /\ DtOff /\ NcOff /\ SpOff /\ OsInit
SpecTree == InitTree /\ [][TrNext]_vars

InitList ==
    /\ ArmOff /\ PrOff /\ SwOff /\ MxOff /\ TcOff /\ MgOff /\ PyOff /\ RdOff
    /\ DsOff /\ TrOff /\ LsInit /\ CsOff /\ MoOff /\ DtOff /\ NcOff /\ SpOff /\ OsInit
SpecList == InitList /\ [][LsNext]_vars

InitCaesar ==
    /\ ArmOff /\ PrOff /\ SwOff /\ MxOff /\ TcOff /\ MgOff /\ PyOff /\ RdOff
    /\ DsOff /\ TrOff /\ LsOff /\ CsInit /\ MoOff /\ DtOff /\ NcOff /\ SpOff /\ OsInit
SpecCaesar == InitCaesar /\ [][CsNext]_vars

InitMorse ==
    /\ ArmOff /\ PrOff /\ SwOff /\ MxOff /\ TcOff /\ MgOff /\ PyOff /\ RdOff
    /\ DsOff /\ TrOff /\ LsOff /\ CsOff /\ MoInit /\ DtOff /\ NcOff /\ SpOff /\ OsInit
SpecMorse == InitMorse /\ [][MoNext]_vars

InitDate ==
    /\ ArmOff /\ PrOff /\ SwOff /\ MxOff /\ TcOff /\ MgOff /\ PyOff /\ RdOff
    /\ DsOff /\ TrOff /\ LsOff /\ CsOff /\ MoOff /\ DtInit /\ NcOff /\ SpOff /\ OsInit
SpecDate == InitDate /\ [][DtNext]_vars

InitOptions ==
    /\ ArmOff /\ PrOff /\ SwOff /\ MxOff /\ TcOff /\ MgOff /\ PyOff /\ RdOff
    /\ DsOff /\ TrOff /\ LsOff /\ CsOff /\ MoOff /\ DtOff /\ NcInit /\ SpOff /\ OsInit
SpecOptions == InitOptions /\ [][NcNext]_vars

InitSinglePyramid ==
    /\ ArmOff /\ PrOff /\ SwOff /\ MxOff /\ TcOff /\ MgOff /\ PyOff /\ RdOff
    /\ DsOff /\ TrOff /\ LsOff /\ CsOff /\ MoOff /\ DtOff /\ NcOff /\ SpInit /\ OsInit
SpecSinglePyramid == InitSinglePyramid /\ [][SpNext]_vars

\* the three searches that allocate a shared result buffer
InitAllocation == InitArmstrong \/ InitPrimes \/ InitDigitSum
AllocationNext == ArmNext \/ PrNext \/ DsNext
SpecAllocation == InitAllocation /\ [][AllocationNext]_vars

\* the programs whose error paths are examined: the matrix operations and
\* the text converter
InitErrors == InitMatrix \/ InitConverter
ErrorsNext == MxNext \/ TcNext
SpecErrors == InitErrors /\ [][ErrorsNext]_vars

\* any one of the programs
Init ==
    \/ InitArmstrong \/ InitPrimes \/ InitSwap \/ InitMatrix
    \/ InitConverter \/ InitMerge \/ InitPyramid \/ InitReader \/ InitDigitSum \/ InitTree
    \/ InitList
    \/ InitCaesar
    \/ InitMorse
    \/ InitDate
    \/ InitOptions
    \/ InitSinglePyramid
Next == ArmNext \/ PrNext \/ SwNext \/ MxNext \/ TcNext \/ MgNext \/ PyNext \/ RdNext \/ DsNext \/ TrNext
    \/ LsNext
    \/ CsNext
    \/ MoNext
    \/ DtNext
    \/ NcNext
    \/ SpNext
Spec == Init /\ [][Next]_vars

(***************************************************************************)
(* Properties of swap_min_max                                              *)
(***************************************************************************)
\* the first index that holds the least (greatest) value of arr
FirstMinIndex(arr) ==
    CHOOSE i \in DOMAIN arr :
        /\ \A k \in DOMAIN arr : arr[i] <= arr[k]
        /\ \A k \in DOMAIN arr : k < i => arr[k] > arr[i]

FirstMaxIndex(arr) ==
    CHOOSE i \in DOMAIN arr :
        /\ \A k \in DOMAIN arr : arr[i] >= arr[k]
        /\ \A k \in DOMAIN arr : k < i => arr[k] < arr[i]

\* how often v occurs in arr
Occurrences(arr, v) == Cardinality({i \in DOMAIN arr : arr[i] = v})

SameMultiset(f, g) ==
    /\ DOMAIN f = DOMAIN g
    /\ \A v \in Range(f) \cup Range(g) : Occurrences(f, v) = Occurrences(g, v)

SwReturned == sw_main = "done" /\ size >= 1

\* C1: when swap_min_max returns, the array is the input with the first
\* occurrence of its minimum and the first occurrence of its maximum exchanged,
\* whatever the thread count and the order of the critical sections.
C1_SwapsFirstMinAndFirstMax ==
    SwReturned =>
        array = [sw_input EXCEPT ![FirstMinIndex(sw_input)] = sw_input[FirstMaxIndex(sw_input)],
                                 ![FirstMaxIndex(sw_input)] = sw_input[FirstMinIndex(sw_input)]]

\* C2: the array is at every moment a permutation of the input, and differs
\* from it in at most two positions.
C2_PermutationTwoPositions ==
    /\ SameMultiset(array, sw_input)
    /\ Cardinality({i \in DOMAIN array : array[i] # sw_input[i]}) <= 2

\* C2 witness: a call with two threads has returned and has moved two values.
C2_Witness ==
    /\ SwReturned
    /\ sw_threads >= 2
    /\ Cardinality({i \in DOMAIN array : array[i] # sw_input[i]}) = 2

\* a thread is at one of the reads of the shared accumulators that precede
\* the omp for (they are outside the critical section)
SwReadsShared(w) == sw_pc[w] \in {"r_min", "r_max", "r_min_idx", "r_max_idx"}

\* a thread is inside the critical section with a write of a shared
\* accumulator still to make
SwWritesShared(w) ==
    /\ sw_crit = w
    /\ \/ sw_pc[w] \in {"c_min_idx", "c_max_idx"}
       \/ sw_pc[w] = "c_max" /\ local_max[w] > max_val

\* C7: no thread reads or writes min_val, max_val, min_idx, max_idx outside
\* the critical section while another thread is inside it writing them.
C7_AccumulatorsOnlyUnderLock ==
    \A w1 \in SwThreads, w2 \in SwThreads :
        w1 # w2 => ~(SwReadsShared(w1) /\ SwWritesShared(w2))

(***************************************************************************)
(* Properties of the threaded Armstrong search                             *)
(***************************************************************************)
IsAscending(seq) == \A k \in 1 .. Len(seq) - 1 : seq[k] < seq[k + 1]

NoDuplicates(seq) == \A a, b \in 1 .. Len(seq) : a # b => seq[a] # seq[b]

ArmAllCreated == arm_pc \in {"join", "print", "done"}

\* the numbers worker w has tested so far
Examined(w) == thread_data[w].start .. t_i[w] - 1

\* the range worker w was given
WorkerRange(w) == thread_data[w].start .. thread_data[w].end

\* the first k cells of results differ from what they were before the sort
SortReordered == \E k \in 0 .. result_count - 1 : presort[k] # results[k]

\* C3: the threaded search prints exactly the numbers the sequential search
\* prints for the same limit and algorithm, each once.
C3_SameSetAsSequential ==
    arm_pc = "done" =>
        /\ Range(output) = Range(print_armstrong_numbers(limit, algorithm))
        /\ Len(output) = Len(print_armstrong_numbers(limit, algorithm))
        /\ NoDuplicates(output)

\* C3 witness: a search with the most threads over a limit that has numbers
\* to reject has printed, and the flushes had arrived out of order.
C3_Witness ==
    /\ arm_pc = "done"
    /\ limit >= 10
    /\ thread_count = MaxArmThreads
    /\ Len(output) >= 9
    /\ SortReordered

\* C4: once the workers are created their ranges follow each other from 1 to
\* limit without gap or overlap (a range may be empty), and no number is
\* tested by two workers; when all have returned every number was tested by
\* exactly one.
C4_RangesPartition ==
    /\ ArmAllCreated =>
          /\ thread_data[0].start = 1
          /\ thread_data[thread_count - 1].end = limit
          /\ \A w \in ArmWorkers : thread_data[w].start <= thread_data[w].end + 1
          /\ \A w \in 0 .. thread_count - 2 :
                 thread_data[w + 1].start = thread_data[w].end + 1
          /\ \A w1, w2 \in ArmWorkers :
                 w1 # w2 => WorkerRange(w1) \cap WorkerRange(w2) = {}
          /\ UNION {WorkerRange(w) : w \in ArmWorkers} = 1 .. limit
    /\ \A n \in 1 .. limit :
          Cardinality({w \in ArmWorkers : t_pc[w] # "none" /\ n \in Examined(w)}) <= 1
    /\ (\A w \in ArmWorkers : t_pc[w] = "done") =>
          \A n \in 1 .. limit :
              Cardinality({w \in ArmWorkers : n \in Examined(w)}) = 1

\* C4 witness: a search with fewer numbers than workers (limit / T = 0) has
\* run to the end.
C4_Witness ==
    /\ arm_pc = "done"
    /\ limit < thread_count
    /\ chunk_size = 0

\* C5: the numbers are printed in strictly ascending order.
C5_PrintedAscending == arm_pc = "done" => IsAscending(output)

\* C5 witness: the results were flushed out of order, sorted and printed.
C5_Witness ==
    /\ arm_pc = "done"
    /\ Len(output) >= 2
    /\ ~ (\A k \in 0 .. result_count - 2 : presort[k] < presort[k + 1])

\* the controller has left the join loop: it sorts, prints or has finished
ArmControllerReads ==
    \/ arm_pc \in {"print", "done"}
    \/ arm_pc = "join" /\ arm_i >= thread_count

\* C10: when the controller sorts and prints, every worker has returned and
\* released the mutex, so none can write results or result_count any more.
C10_ForkJoin ==
    ArmControllerReads =>
        /\ \A w \in ArmWorkers : t_pc[w] = "done"
        /\ mutex = FREE

\* C10 witness: the controller is about to sort results that workers flushed.
C10_Witness ==
    /\ arm_pc = "join"
    /\ arm_i >= thread_count
    /\ result_count >= 2

IsPrimeNumber(n) == n >= 2 /\ \A d \in 2 .. n - 1 : n % d # 0

\* is_prime decides primality on every number the program gives it
is_prime_correct == \A n \in 0 .. PRIMES_UP_TO : is_prime(n) = IsPrimeNumber(n)

PrAllDone == pr_main # "off" /\ \A w \in PrThreads : pr_pc[w] = "done"

\* C6: after the parallel loop primes[0 .. count) holds every prime of
\* [2, limit] once and nothing else, and count is the number of those primes.
C6_PrimesExactlyOnce ==
    /\ is_prime_correct
    /\ PrAllDone =>
          /\ {primes[k] : k \in 0 .. count - 1} = {n \in 2 .. pr_limit : IsPrimeNumber(n)}
          /\ count = Cardinality({n \in 2 .. pr_limit : IsPrimeNumber(n)})
          /\ \A a, b \in 0 .. count - 1 : a # b => primes[a] # primes[b]

\* C6 witness: two threads have finished and the primes were appended out of
\* numeric order.
C6_Witness ==
    /\ PrAllDone
    /\ pr_threads >= 2
    /\ count >= 4
    /\ \E k \in 0 .. count - 2 : primes[k] > primes[k + 1]

(***************************************************************************)
(* Properties of both searches                                             *)
(***************************************************************************)
\* C8: a worker is inside the locked region exactly while it copies into the
\* shared array; a worker that tests a number (or waits for the lock) does not
\* hold it, and at most one worker is inside.
C8_LockOnlyForFlush ==
    /\ \A w \in ArmWorkers : (mutex = w) <=> (t_pc[w] = "copy")
    /\ Cardinality({w \in ArmWorkers : t_pc[w] = "copy"}) <= 1
    /\ \A w \in PrThreads : (pr_crit = w) <=> (pr_pc[w] = "append")
    /\ Cardinality({w \in PrThreads : pr_pc[w] = "append"}) <= 1

\* C8 witness: one worker copies under the mutex, one waits for it and one is
\* still testing numbers.
C8_Witness ==
    \E w1, w2, w3 \in ArmWorkers :
        /\ t_pc[w1] = "copy" /\ t_j[w1] >= 1
        /\ t_pc[w2] = "lock"
        /\ t_pc[w3] = "loop" /\ t_i[w3] <= thread_data[w3].end

(***************************************************************************)
(* Properties of matrix_transpose and matrix_multiply                      *)
(***************************************************************************)
ResultCells == 0 .. mat_result.rows * mat_result.cols - 1

\* C9: no element of result->data is ever written twice; when the operation
\* returns every cell of the result was written exactly once, by the thread
\* that owns the row of the iteration that wrote it.
C9_EachCellWrittenOnce ==
    /\ \A r1, r2 \in mx_writes : r1.idx = r2.idx => r1 = r2
    /\ \A r \in mx_writes : r.thread = mx_owner[r.i]
    /\ mx_main = "done" =>
          /\ {r.idx : r \in mx_writes} = ResultCells
          /\ DOMAIN mat_result.data = ResultCells
          /\ Cardinality(mx_writes) = mat_result.rows * mat_result.cols

\* C9 witness: an operation on a matrix with more than one row and column has
\* returned, and two threads wrote cells of the result.
C9_Witness ==
    /\ mx_main = "done"
    /\ mat_a.rows >= 2 /\ mat_result.cols >= 2
    /\ \E r1, r2 \in mx_writes : r1.thread # r2.thread

\* C12: when the transpose operation has been applied to a matrix and then to
\* its result, the second result has the dimensions and every cell of the
\* matrix the first one was given, whatever the threads and their rows.
C12_TransposeTwiceIsIdentity ==
    (mx_op = "transpose" /\ mx_first # NoMatrix /\ mx_main \in {"done", "exit"}) =>
        /\ mat_result.rows = mx_first.rows
        /\ mat_result.cols = mx_first.cols
        /\ mat_result.data = mx_first.data

\* C12 witness: a matrix that is not square was transposed twice by two
\* threads that both wrote cells.
C12_Witness ==
    /\ mx_op = "transpose" /\ mx_first # NoMatrix /\ mx_main = "done"
    /\ mx_first.rows # mx_first.cols
    /\ \E r1, r2 \in mx_writes : r1.thread # r2.thread

\* C13: a multiplication computes a product only when a.cols = b.rows, and the
\* result then has a.rows rows, b.cols columns and that many cells; when
\* a.cols differs from b.rows the operation ends with an error on stderr and
\* status 1 and no cell of a product is ever written.
C13_MultiplyDimensions ==
    mx_op = "multiply" =>
        /\ mx_main \in {"parallel", "done", "exit"} =>
               /\ mat_a.cols = mat_b.rows
               /\ mat_result.rows = mat_a.rows
               /\ mat_result.cols = mat_b.cols
        /\ mx_main \in {"done", "exit"} =>
               DOMAIN mat_result.data = 0 .. mat_a.rows * mat_b.cols - 1
        /\ mat_a.cols # mat_b.rows =>
               /\ mx_main \in {"start", "error"}
               /\ mx_writes = {}
               /\ mat_result = NoMatrix
               /\ mx_file = "none"
        /\ mx_main = "error" =>
               /\ mat_a.cols # mat_b.rows
               /\ Len(std_err) = 1
               /\ exit_status = 1

\* C13 witness: the product of two matrices that are not square and whose
\* result has other dimensions than either was computed.
C13_Witness ==
    /\ mx_op = "multiply" /\ mx_main = "done"
    /\ mat_a.rows # mat_a.cols
    /\ mat_b.rows # mat_b.cols
    /\ mat_result.rows * mat_result.cols >= 1

\* m is the n x n identity matrix
IsIdentity(m) ==
    /\ m.rows = m.cols
    /\ \A x \in DOMAIN m.data :
           m.data[x] = Fin(IF x \div m.cols = x % m.cols THEN 1 ELSE 0)

\* r has the dimensions of m and every cell of r compares equal to that of m
SameCells(r, m) ==
    /\ r.rows = m.rows /\ r.cols = m.cols
    /\ DOMAIN r.data = DOMAIN m.data
    /\ \A x \in DOMAIN m.data : feq(r.data[x], m.data[x])

AllFinite(m) == \A x \in DOMAIN m.data : IsFinite(m.data[x])

RECURSIVE SumOfProducts(_, _, _)
\* the sum over k in 0 .. n of a[i,k] * b[k,j] for finite cells, from the
\* last term down
SumOfProducts(i, j, n) ==
    IF n < 0 THEN 0
    ELSE mat_a.data[i * mat_a.cols + n].val * mat_b.data[n * mat_b.cols + j].val
         + SumOfProducts(i, j, n - 1)

MultiplyReturned == mx_op = "multiply" /\ mx_main \in {"done", "exit"}

C15_MergeSortedUnion ==
    mg_main = "merged" =>
        /\ DOMAIN mg_merged = 0 .. ArraySize(mg_a) + ArraySize(mg_b) - 1
        /\ \A x \in DOMAIN mg_merged :
               (x + 1) \in DOMAIN mg_merged => mg_merged[x] <= mg_merged[x + 1]
        /\ \A v \in 1 .. MaxMergeVal :
               Occurrences(mg_merged, v) = Occurrences(mg_a, v) + Occurrences(mg_b, v)

\* merging [1,3,5] and [2,4,6] has given [1,2,3,4,5,6]
C15_Witness ==
    /\ mg_main = "merged"
    /\ mg_a = [x \in 0 .. 2 |-> 2 * x + 1]
    /\ mg_b = [x \in 0 .. 2 |-> 2 * x + 2]
    /\ mg_merged = [x \in 0 .. 5 |-> x + 1]

\* parse_args has reported an option without its value
MissingValueReported ==
    \E k \in 1 .. Len(std_err) :
        std_err[k] \in {"Missing value for rows parameter",
                        "Missing value for columns parameter",
                        "Missing value for symbols parameter",
                        "Missing value for threads parameter"}

\* C17: once an option without its value was reported on stderr, the program
\* prints no pyramid and ends with a status other than 0.
C17_MissingValueIsFatal ==
    (MissingValueReported /\ exit_status # RUNNING) =>
        (exit_status # 0 /\ py_out # "pyramids")

\* the lines of a file: what stands between its newlines
FileLines(file) ==
    LET ends == {p \in 1 .. Len(file) : file[p] = "\n"} \cup {Len(file) + 1}
    IN  {SubSeq(file, (CHOOSE b \in 1 .. e :
                          \A q \in b .. e - 1 : file[q] # "\n"
                          /\ (b = 1 \/ file[b - 1] = "\n")), e - 1) : e \in ends}

\* the numbers of whitespace-delimited tokens on the lines that have any
TokenCounts(file) ==
    {Cardinality(TokenStarts(l)) : l \in {m \in FileLines(file) : TokenStarts(m) # {}}}

\* C18: a file that read_matrix_from_file has loaded has the same number of
\* whitespace-delimited tokens on each of its non-empty lines.
C18_LoadedFilesHaveEqualTokenCounts ==
    \A k \in 1 .. Len(rd_loaded) : Cardinality(TokenCounts(rd_files[k])) <= 1

\* the indices i * cols + j that the loops over a rows x cols matrix compute
CellIndices(rows, cols) ==
    {i * cols + j : i \in 0 .. rows - 1, j \in 0 .. cols - 1}

WithinCapacity(rows, cols) ==
    /\ rows <= MAX_DIM
    /\ cols <= MAX_DIM
    /\ rows * cols <= MAX_DIM * MAX_DIM
    /\ CellIndices(rows, cols) \subseteq 0 .. MAX_DIM * MAX_DIM - 1

\* C19: every matrix loaded from a file, and the result whose dimensions main
\* derives from the loaded ones for transpose or multiply, has at most
\* MAX_DIM rows and MAX_DIM columns, and every index i * cols + j of its cells
\* (the transposed index j * rows + i included) lies in 0 .. 9999.
C19_DimensionsWithinCapacity ==
    /\ \A k \in 1 .. Len(rd_loaded) :
           /\ WithinCapacity(rd_loaded[k].rows, rd_loaded[k].cols)
           /\ WithinCapacity(rd_loaded[k].cols, rd_loaded[k].rows)
           /\ DOMAIN rd_loaded[k].data \subseteq 0 .. MAX_DIM * MAX_DIM - 1
    /\ WithinCapacity(rd_result.rows, rd_result.cols)

\* a file of MAX_DIM rows and one of MAX_DIM columns were loaded and main has
\* set the dimensions of their MAX_DIM x MAX_DIM product
C19_Witness ==
    /\ rd_main = "matrix_multiply"
    /\ rd_loaded[1].rows = MAX_DIM
    /\ rd_loaded[2].cols = MAX_DIM
    /\ rd_result = [rows |-> MAX_DIM, cols |-> MAX_DIM]

\* the allocation of the shared result buffer has failed
AllocationFailed ==
    \E k \in 1 .. Len(std_err) : std_err[k] = "Memory allocation failed"

\* C20: after a failed allocation of the shared buffer in the Armstrong, the
\* prime or the digit-sum search the diagnostic is on stderr, the exit status
\* is 1, no worker has started and no result value is printed.
C20_AllocationFailureIsFatal ==
    AllocationFailed =>
        /\ exit_status = 1
        /\ arm_pc \in {"off", "exit"}
        /\ pr_main \in {"off", "exit"}
        /\ ds_main \in {"off", "exit"}
        /\ \A w \in ArmWorkers : t_pc[w] = "none"
        /\ \A w \in PrThreads : pr_pc[w] = "wait"
        /\ \A w \in DsThreads : ds_pc[w] = "wait"
        /\ output = << >> /\ pr_output = << >> /\ ds_output = << >>

\* the allocation has failed in the digit-sum search and the process is gone
C20_Witness ==
    /\ AllocationFailed
    /\ ds_main = "exit"
    /\ exit_status = 1

\* C29: a matrix that read_matrix_from_file has loaded holds exactly
\* rows * cols values: the cells written are data[0 .. rows * cols - 1].
C29_LoadedMatrixIsFull ==
    \A k \in 1 .. Len(rd_loaded) :
        DOMAIN rd_loaded[k].data = 0 .. rd_loaded[k].rows * rd_loaded[k].cols - 1

\* node is an ancestor of other
IsAncestor(node, other) ==
    Len(node) < Len(other) /\ SubSeq(other, 1, Len(node)) = node

\* C21: free_tree frees no node and no children array twice, frees every
\* node after all the nodes below it, reads no node that was freed, and when
\* it has returned every node and every array was freed once.
C21_TreeFreedPostOrderOnce ==
    /\ \A node \in TrNodes : tr_frees[node].node <= 1 /\ tr_frees[node].children <= 1
    /\ \A k, m \in 1 .. Len(tr_order) : k < m => ~ IsAncestor(tr_order[k], tr_order[m])
    /\ ~ tr_stale
    /\ tr_main = "done" =>
           \A node \in TrNodes : tr_frees[node].node = 1 /\ tr_frees[node].children = 1

\* a tree of depth 3 built with a team was freed
C21_Witness ==
    /\ tr_main = "done"
    /\ tr_depth = 3 /\ tr_branches = 2 /\ tr_threads > 1
    /\ Len(tr_order) = Cardinality(TrNodes)
    /\ tr_order[Len(tr_order)] = << >>

\* C23: no slot is stored into more than once by a section or iteration;
\* when the tree is built every slot was stored into exactly once, every slot
\* of a node above the last level holds a child, and the depth computed is
\* the depth asked for.
C23_BuiltTreeHasDepth ==
    /\ \A node \in TrNodes : \A i \in 0 .. tr_branches - 1 : tr_stores[node][i] <= 1
    /\ tr_main \in {"free_tree", "done"} =>
           /\ tr_calc = tr_depth
           /\ \A node \in TrNodes : \A i \in 0 .. tr_branches - 1 :
                  /\ tr_stores[node][i] = 1
                  /\ Len(node) < tr_depth - 1 => tr_children[node][i] = Append(node, i)

\* an m-branch tree of depth 3 was built by a team and its depth computed
C23_Witness ==
    /\ tr_main = "free_tree"
    /\ tr_kind = "mbranch" /\ tr_depth = 3 /\ tr_branches = 2 /\ tr_threads > 1
    /\ tr_calc = 3

RECURSIVE ListFrom(_, _)
\* the nodes reached from addr along next, at most fuel of them
ListFrom(addr, fuel) ==
    IF addr = NULL_PTR \/ fuel = 0 THEN {}
    ELSE {addr} \cup ListFrom(ls_mem[addr].next, fuel - 1)

RECURSIVE LettersLine(_, _)
\* A->B->...->NIL with n letters, from letter i on
LettersLine(i, n) ==
    IF i > n THEN << "->NIL" >>
    ELSE (IF i < n THEN << UpperLetters[i], "->" >> ELSE << UpperLetters[i] >>)
         \o LettersLine(i + 1, n)

\* C22: in the list operations no node is freed twice, no node is used that
\* is not allocated, the copy has no node of the original, the copy prints as
\* the original did (A->B->C...) after the original was reversed and freed,
\* and at exit every node that was allocated has been freed once.
C22_ListNodesFreedOnce ==
    /\ \A addr \in LsAddresses : ls_frees[addr] <= 1
    /\ ~ ls_stale
    /\ ls_pc \in {"copy_list", "copied", "reverse_list", "print_reversed", "free_list",
                  "print_copy"} /\ KeepsOriginal =>
           ListFrom(ls_copy, 2 * MaxListLength) \cap ls_orig = {}
    /\ Len(ls_out) >= 1 => ls_out[1] = LettersLine(1, ls_length)
    /\ Len(ls_out) = 3 => ls_out[3] = LettersLine(1, ls_length)
    /\ ls_pc = "done" =>
           /\ ls_live = {}
           /\ \A addr \in LsAddresses : ls_frees[addr] = 1 \/ addr \notin ls_orig
           /\ exit_status = 0 => Cardinality({addr \in LsAddresses : ls_frees[addr] = 1})
                                    = (IF KeepsOriginal THEN 2 ELSE 1) * ls_length

\* a list of three nodes was copied, reversed, freed, and the copy printed
\* and freed
C22_Witness ==
    /\ ls_pc = "done"
    /\ KeepsOriginal
    /\ ls_length = 3
    /\ Len(ls_out) = 3
    /\ ls_out[2] = << "C", "->", "B", "->", "A", "->NIL" >>
    /\ ls_live = {}

\* C24: decoding what was encoded with the same shift gives the text back,
\* and every character the cipher has stored is a letter of the case it had,
\* every other character is as it was.
C24_CaesarRoundTrip ==
    /\ \A k \in 1 .. Len(cs_str) :
          /\ isupper(cs_text[k]) <=> isupper(cs_str[k])
          /\ islower(cs_text[k]) <=> islower(cs_str[k])
          /\ ~ isalpha(cs_text[k]) => cs_str[k] = cs_text[k]
    /\ cs_pc = "done" => cs_str = cs_text

\* C25: a line of letters, digits and spaces whose Morse form fits the
\* buffer comes back from text_to_morse and morse_to_text with its letters
\* in upper case; every table entry decodes to its character; a space is
\* encoded as a slash.
C25_MorseRoundTrip ==
    /\ \A k \in 1 .. MORSE_CODE_SIZE : find_char_morse(morse_code_table[k]) = morse_chars[k]
    /\ morse_of(SPACE) = << SLASH, SPACE >>
    /\ mo_pc = "done" =>
           /\ Len(mo_str) = Len(mo_text)
           /\ \A k \in 1 .. Len(mo_text) : mo_str[k] = toupper(mo_text[k])

\* a line with a lower-case letter and a space has come back
C25_Witness ==
    /\ mo_pc = "done"
    /\ mo_text = << LOWER_A + 25, SPACE >>
    /\ mo_str = << UPPER_A + 25, SPACE >>

\* C28: text_to_morse writes nothing past the end of the caller's buffer.
C28_MorseFitsBuffer == ~ mo_overrun

\* the calendar: leap years and the number of days of a month
IsLeap(year) == year % 400 = 0 \/ (year % 4 = 0 /\ year % 100 # 0)
DaysOfMonth(year, month) ==
    IF month = 2 THEN (IF IsLeap(year) THEN 29 ELSE 28)
    ELSE IF month \in {4, 6, 9, 11} THEN 30 ELSE 31
IsCalendarDate(date) ==
    /\ date.year >= 1
    /\ date.month \in 1 .. 12
    /\ date.day \in 1 .. DaysOfMonth(date.year, date.month)

\* C26: Date_is_valid returns true exactly for the dates of the calendar,
\* and for any other date validate_and_process exits with failure and has
\* printed no result.
C26_ValidDatesOnly ==
    /\ dt_pc \notin {"off", "validate"} => (dt_valid <=> IsCalendarDate(dt_date))
    /\ dt_pc \notin {"off", "validate"} /\ ~ IsCalendarDate(dt_date) => dt_out = << >>
    /\ dt_pc = "done" /\ ~ IsCalendarDate(dt_date) => exit_status = 1
    /\ dt_pc = "done" /\ IsCalendarDate(dt_date) => exit_status = 0 /\ dt_out # << >>

\* 29 February 1900 was rejected
C26_Witness ==
    /\ dt_pc = "done"
    /\ dt_date = [year |-> 1900, month |-> 2, day |-> 29]
    /\ exit_status = 1
    /\ dt_out = << >>

\* every word of memory other than those of the field keeps its value
OnlyWritten(words) == \A w \in DOMAIN nc_mem \ words : nc_mem'[w] = nc_mem[w]

\* C27: a numeric option of the number operations changes the field it
\* names and nothing else, in config or after it.
C27_OptionWritesOwnField ==
    [][/\ NcThreads => OnlyWritten({W_THREADS})
       /\ NcSum => OnlyWritten({W_SUM_TARGET})
       /\ NcRow => OnlyWritten({W_ROW_SIZE})
       /\ NcWidth => OnlyWritten({W_NUM_WIDTH})]_vars

\* row i of the pyramid: rows - i - 1 spaces, then 2i + 1 symbols that cycle
\* through the symbol set (a space when the set is empty), within the colour
\* code and the reset when colour is on
PyramidRow(config, i) ==
    [s \in 1 .. config.rows - i - 1 |-> " "]
    \o (IF ~ config.use_color THEN << >>
        ELSE IF config.color = "red" THEN COLOR_RED
        ELSE IF config.color = "blue" THEN COLOR_BLUE ELSE COLOR_RESET)
    \o [j \in 1 .. 2 * i + 1 |->
           IF config.symbols = << >> THEN " "
           ELSE config.symbols[((j - 1) % Len(config.symbols)) + 1]]
    \o (IF config.use_color THEN COLOR_RESET ELSE << >>)

\* C30: with one thread or several the lines printed are the rows of the
\* pyramid in order; no row is written past its buffer, and a row buffer is
\* written by its own iteration only.
C30_ParallelPrintsSamePyramid ==
    /\ ~ sp_overrun
    /\ \A k \in 1 .. Len(sp_out) : sp_out[k] = PyramidRow(sp_config, k - 1)
    /\ \A i \in DOMAIN sp_rows : i \notin sp_filled => sp_rows[i] = << >>
    /\ sp_pc = "exit" /\ exit_status = 0 => Len(sp_out) = sp_config.rows

\* a pyramid of three rows in red over two symbols was printed by two threads
C30_Witness ==
    /\ sp_pc = "exit"
    /\ sp_config.rows = 3 /\ sp_config.threads = 2
    /\ sp_config.use_color /\ sp_config.color = "red"
    /\ sp_config.symbols = << "A", "B" >>
    /\ Len(sp_out) = 3
    /\ sp_out[2] = << " " >> \o COLOR_RED \o << "A", "B", "A" >> \o COLOR_RESET

\* an error was detected and reported: by the matrix program on stderr, by
\* process_files on stdout
ErrorReported ==
    \/ std_err # << >>
    \/ \E k \in 1 .. Len(tc_log) :
           tc_log[k].line \in {"Error opening input file", "Error opening output file"}

\* C16: once an error was reported the process does no further work (the text
\* converter processes no file after it) and ends with a status other than 0.
C16_ErrorsAreFatal ==
    /\ (exit_status # RUNNING /\ ErrorReported) => exit_status # 0
    /\ \A k, n \in 1 .. Len(tc_log) :
           (k < n /\ tc_log[k].line \in {"Error opening input file",
                                         "Error opening output file"})
               => tc_log[n].line # "Processed file"

====
